---- MODULE Spec2Model ----
(***************************************************************************)
(* rxjs-autorun: the expression runner (`runner` of src/src/autorun.ts,    *)
(* lines 432-656).  One runner connection, its dependency map, the         *)
(* downstream subscriber, and the sources the expression reads.            *)
(*                                                                         *)
(* A pass (runFn) is executed step by step: pc = "fn" while the expression *)
(* is being evaluated, one Access step per accessor call, and one closing  *)
(* step (return, throw, or an accessor that throws) that also runs the     *)
(* catch / finally part of runFn and the rest of the handler that called   *)
(* runFn.  Source events are delivered only while no pass is executing     *)
(* (the code is single-threaded and the expression has no side effects on  *)
(* the sources).                                                           *)
(*                                                                         *)
(* The sources are the environment: any Observable.  A source delivers to  *)
(* each connection any sequence the stream protocol allows: values, then   *)
(* at most one completion or failure; part of it synchronously while the   *)
(* connection is opened, the rest later.  The expression is any function:  *)
(* each pass it makes any sequence of accessor calls, then returns the sum *)
(* of the values it read, or throws.                                       *)
(***************************************************************************)
EXTENDS Integers, Sequences, FiniteSets, TLC

\* ---------------------------------------------------------------- bounds
\* MaxVal: the values a source emits are 1..MaxVal; MaxReads: accessor calls
\* of one pass; MaxPasses: passes of one connection (no source emits once
\* that many passes have started)
MaxVal     == 2
MaxReads   == 2
MaxPasses  == 3

\* the sources the expression may read: two references, 1 and 2
Sources == {1, 2}
Values  == 1..MaxVal

\* ------------------------------------------------------- program constants
Weak   == 0
Normal == 1
Strong == 2
Strengths == {Weak, Normal, Strong}

Distinct == "Distinct"
Raw      == "Raw"

\* thrown values: the sentinel, the error of source s, an error of the expression
HALT_ERROR  == 0
ErrorOf(s)  == 0 - s
UserError   == 0 - 3

NoSource == 0
NoValue  == 0

\* no strength: the pass has not read the source
NoStrength == 0 - 1

VARIABLES
    deps,                  \* Map<Observable, TrackEntry>
    shouldCheckCompletion, \* flag of the runner
    loweredStrengthDeps,   \* local of runFn: the entries lowered Normal -> Weak by
                           \* the running pass (or by the pass the latest step ended)
    context,               \* the ambient accessors: "error" or "runner"
    prevCtxt,              \* local of runFn: the context saved before the pass
    inputType,             \* Distinct | Raw
    stopped,               \* downstream subscriber is stopped (terminal or unsubscribed)
    torn,                  \* the teardown of `sub` has run
    initial,               \* the initial runFn() has not returned yet (sub not handed over)
    out,                   \* the signals downstream has observed, in order
    lastOut,               \* the value of the latest of them (result or error)
    pc,                    \* "fn": the expression is executing; "idle": no pass
    acc,                   \* the value computed so far by the expression
    nreads,                \* accessor calls made by the running pass
    cont,                  \* source whose next() handler called runFn with isUntrackFirstValue
    passes,                \* number of passes started
    readT, readU,          \* sources read through $ / _ by the latest pass
    lastPass,              \* outcome of the latest pass
    haltOn,                \* the source whose missing value aborted the latest pass
    ev,                    \* the latest step: its kind, its source, and the value
                           \* delivered (for an accessor call: what the source
                           \* delivered while being subscribed, its error if it
                           \* failed, else its value if it gave one)
    released,              \* the sources whose entries the latest step of the
                           \* runner removed (removeUnusedDeps at the end of a pass)
    strongRead,            \* the sources read through a strong accessor so far
    before,                \* when recording (before.on): the dependency map as it
                           \* was when the latest pass started
    delivered,             \* when recording (delivered.on): the results received by
                           \* the subscriber of combined(fn) / computed(fn)
    nest,                  \* two runners, the outer one reading the inner one: the
                           \* context, the runFn calls in progress, the registries
    conns,                 \* two connections to one runner: the dependency maps,
                           \* the open upstream connections, the results
    subscriptions,         \* when counting (subscriptions.on): per source, the
                           \* connections the runner has opened to it and not
                           \* unsubscribed
    requested              \* per source, the strongest strength an accessor call of
                           \* the running pass (or of the pass the latest step
                           \* ended) asked for

vars == <<deps, shouldCheckCompletion, loweredStrengthDeps, context, prevCtxt,
          inputType, stopped, torn, initial, out, lastOut, pc, acc, nreads, cont,
          passes, readT, readU, lastPass, haltOn, ev, released,
          strongRead, requested, before, delivered, nest, conns, subscriptions>>

\* ------------------------------------------------------------ TrackEntry
NoEntry ==
    [present |-> FALSE, hasValue |-> FALSE, value |-> NoValue,
     subscription |-> "closed", strength |-> Weak, track |-> FALSE,
     used |-> FALSE, completed |-> FALSE, trackArg |-> FALSE]

\* the entry built by tracker() for a source seen for the first time;
\* trackArg is the `track` parameter captured by the subscriber's closures
NewEntry(track, strength) ==
    [present |-> TRUE, hasValue |-> FALSE, value |-> NoValue,
     subscription |-> "open", strength |-> strength, track |-> TRUE,
     used |-> TRUE, completed |-> FALSE, trackArg |-> track]

\* --------------------------------------------------------------- sources
\* What a source may deliver synchronously while it is being subscribed: no
\* value (Subject), a value (BehaviorSubject, startWith, ReplaySubject), and
\* then possibly its completion (of, EMPTY) or its failure (throwError).
SyncValues ==
    {<<>>} \cup {<<[type |-> "next", val |-> x]>> : x \in Values}

SyncTerminals ==
    {<<>>, <<[type |-> "complete", val |-> NoValue]>>, <<[type |-> "error", val |-> NoValue]>>}

SyncEvents == {a \o b : a \in SyncValues, b \in SyncTerminals}

\* a source that emits up to two values while it is being subscribed, as
\* of('a', 'b') does, and then possibly completes
SyncBursts ==
    {a \o b \o c : a \in SyncValues, b \in SyncValues,
                   c \in {<<>>, <<[type |-> "complete", val |-> NoValue]>>}}

\* the values among the events evs
NextsOf(evs) == SelectSeq(evs, LAMBDA e : e.type = "next")

\* the last value among the events evs, if any
LastValue(evs) ==
    IF NextsOf(evs) = <<>> THEN NoValue ELSE NextsOf(evs)[Len(NextsOf(evs))].val

\* the events a source delivers while it is being subscribed end with its failure
SyncFails(evs) == evs # <<>> /\ evs[Len(evs)].type = "error"

\* what subscribing a source delivers to the accessor call: the error of s if
\* it failed, else the value it emitted, if any
SyncDelivery(s, evs) ==
    IF SyncFails(evs) THEN ErrorOf(s)
    ELSE LastValue(evs)

\* ------------------------------------------------ the downstream subscriber
\* R is the runner state: [deps, scc, stopped, torn, initial, out, lastOut, subs]

\* o.subscribe(...) in tracker(): a connection to source s is opened
Connect(R, s) ==
    IF R.subs.on THEN [R EXCEPT !.subs.n[s] = @ + 1] ELSE R

\* dep.subscription.unsubscribe() for the entries of the sources in S: the
\* connection of each, if it was open, is closed
UnsubscribeDeps(R, S) ==
    [R EXCEPT !.deps = [s \in Sources |->
                          IF s \in S
                          THEN [R.deps[s] EXCEPT !.subscription = "closed"]
                          ELSE R.deps[s]],
              !.subs = IF R.subs.on
                       THEN [@ EXCEPT !.n = [s \in Sources |->
                                IF s \in S /\ R.deps[s].subscription = "open"
                                THEN @[s] - 1
                                ELSE @[s]]]
                       ELSE @]

\* a deps.delete(key) that leaves the entries in the map
DeleteDepsKeeps(R, S) ==
    R

\* deps.delete(key) for the sources in S: the entry leaves the map; the object
\* lives on, outside the map, for as long as its subscriber can be called
DeleteDeps(R, S) ==
    [R EXCEPT !.deps = [s \in Sources |->
                          IF s \in S
                          THEN IF R.deps[s].subscription = "closed"
                               THEN NoEntry
                               ELSE [R.deps[s] EXCEPT !.present = FALSE]
                          ELSE R.deps[s]]]

\* a teardown of `sub` that unsubscribes nothing
UnsubscribeNothing(R) ==
    [R EXCEPT !.torn = TRUE]

\* teardown of `sub`: every entry's subscription is unsubscribed
Unsubscribe(R) ==
    [UnsubscribeDeps(R, {s \in Sources : R.deps[s].present}) EXCEPT !.torn = TRUE]

\* a terminal signal stops the subscriber and unsubscribes it; the teardown
\* runs at once when `sub` was already returned, else when runner() returns
Terminate(R, e) ==
    LET R1 == [R EXCEPT !.stopped = TRUE, !.out = Append(@, e.type), !.lastOut = e.val]
    IN IF R.initial THEN R1 ELSE Unsubscribe(R1)

ObserverNext(R, x) ==
    IF R.stopped THEN R ELSE [R EXCEPT !.out = Append(@, "next"), !.lastOut = x]

ObserverError(R, e) ==
    IF R.stopped THEN R ELSE Terminate(R, [type |-> "error", val |-> e])

\* observer.next(x) to a downstream that unsubscribes while it receives x: the
\* subscriber is closed, and the teardown of `sub` runs at once if `sub` was
\* already returned, else when runner() returns it
ObserverNextUnsubscribes(R, x) ==
    IF R.stopped
    THEN R
    ELSE LET R1 == [ObserverNext(R, x) EXCEPT !.stopped = TRUE]
         IN IF R.initial THEN R1 ELSE Unsubscribe(R1)

\* observer.complete() on a downstream that does not ignore signals once stopped
ObserverCompleteUnguarded(R) ==
    Terminate(R, [type |-> "complete", val |-> NoValue])

ObserverComplete(R) ==
    IF R.stopped THEN R ELSE Terminate(R, [type |-> "complete", val |-> NoValue])

\* ------------------------------------------------------------ the runner
SetDep(R, s, v) == [R EXCEPT !.deps[s] = v]

\* checkCompletion that completes as soon as one tracked entry has completed
CheckCompletionSome(R) ==
    LET R1 == [R EXCEPT !.scc = FALSE]
    IN IF \A s \in Sources :
              R.deps[s].present /\ R.deps[s].track => ~R.deps[s].completed
       THEN R1
       ELSE ObserverComplete(R1)

\* checkCompletion
CheckCompletion(R) ==
    LET R1 == [R EXCEPT !.scc = FALSE]
    IN IF \E s \in Sources :
              R.deps[s].present /\ R.deps[s].track /\ ~R.deps[s].completed
       THEN R1
       ELSE ObserverComplete(R1)

\* removeUnusedDeps that also keeps the entries of the given strength
RemoveUnusedDepsInclusive(R, ofStrength) ==
    [R EXCEPT !.deps = [s \in Sources |->
        IF R.deps[s].present /\ ~(R.deps[s].used \/ R.deps[s].strength >= ofStrength)
        THEN NoEntry
        ELSE R.deps[s]]]

\* removeUnusedDeps that keeps the tracked entries instead of the used ones
RemoveUnusedDepsByTrack(R, ofStrength) ==
    [R EXCEPT !.deps = [s \in Sources |->
        IF R.deps[s].present /\ ~(R.deps[s].track \/ R.deps[s].strength > ofStrength)
        THEN NoEntry
        ELSE R.deps[s]]]

\* removeUnusedDeps: the entries it unsubscribes and deletes
UnusedDeps(R, ofStrength) ==
    {s \in Sources :
        R.deps[s].present /\ ~(R.deps[s].used \/ R.deps[s].strength > ofStrength)}

\* removeUnusedDeps that deletes the entries without unsubscribing them
RemoveUnusedDepsLeaks(R, ofStrength) ==
    DeleteDeps(R, UnusedDeps(R, ofStrength))

\* removeUnusedDeps
RemoveUnusedDeps(R, ofStrength) ==
    DeleteDeps(UnsubscribeDeps(R, UnusedDeps(R, ofStrength)), UnusedDeps(R, ofStrength))

\* runFn, before the expression: the entries whose strength is lowered
LoweredStrengthDeps(d) ==
    {s \in Sources : d[s].present /\ d[s].strength = Normal}

\* runFn, before the expression, without the lowering of Normal to Weak
MarkDepsNoLower(d) ==
    [s \in Sources |->
        IF d[s].present
        THEN [d[s] EXCEPT !.track = FALSE, !.used = FALSE]
        ELSE d[s]]

\* runFn, before the expression, without the reset of track
MarkDepsKeepsTrack(d) ==
    [s \in Sources |->
        IF d[s].present
        THEN [d[s] EXCEPT !.used = FALSE,
                          !.strength = IF @ = Normal THEN Weak ELSE @]
        ELSE d[s]]

\* runFn, before the expression: all entries untracked, unused, Normal -> Weak
MarkDeps(d) ==
    [s \in Sources |->
        IF d[s].present
        THEN [d[s] EXCEPT !.track = FALSE, !.used = FALSE,
                          !.strength = IF @ = Normal THEN Weak ELSE @]
        ELSE d[s]]

\* runFn, catch of HALT_ERROR: the lowered entries are Normal again
RestoreStrength(R, lowered) ==
    [R EXCEPT !.deps = [s \in Sources |->
        IF s \in lowered THEN [R.deps[s] EXCEPT !.strength = Normal] ELSE R.deps[s]]]

\* the connection of an entry without distinctUntilChanged, whatever the inputType
PassesFilterNone(v, value, it) ==
    TRUE

\* distinctUntilChanged on the connection of an entry (inputType Distinct):
\* the last value that passed is the one the entry stores
PassesFilter(v, value, it) ==
    it = Raw \/ ~v.hasValue \/ v.value # value

\* subscriber.next that stores the value of a tracked entry only
OnNextTrackedOnly(R, s, value, isAsync) ==
    LET v      == R.deps[s]
        first  == ~v.hasValue /\ ~v.trackArg
        v1     == IF v.track THEN [v EXCEPT !.hasValue = TRUE, !.value = value] ELSE v
        R1     == [SetDep(R, s, v1) EXCEPT !.scc = IF first THEN TRUE ELSE @]
        run    == isAsync /\ v1.track
    IN [R     |-> IF ~run /\ first THEN SetDep(R1, s, [v1 EXCEPT !.track = FALSE]) ELSE R1,
        run   |-> run,
        first |-> first]

\* subscriber.next that does not flag the first value of an entry created
\* through _ for a completion check
OnNextNoFlag(R, s, value, isAsync) ==
    LET v      == R.deps[s]
        first  == ~v.hasValue /\ ~v.trackArg
        v1     == [v EXCEPT !.hasValue = TRUE, !.value = value]
        R1     == SetDep(R, s, v1)
        run    == isAsync /\ v1.track
    IN [R     |-> IF ~run /\ first THEN SetDep(R1, s, [v1 EXCEPT !.track = FALSE]) ELSE R1,
        run   |-> run,
        first |-> first]

\* subscriber.next: the result says whether runFn() is to be called, and
\* whether the value is the first one of an entry created through _
OnNext(R, s, value, isAsync) ==
    LET v      == R.deps[s]
        first  == ~v.hasValue /\ ~v.trackArg
        v1     == [v EXCEPT !.hasValue = TRUE, !.value = value]
        R1     == [SetDep(R, s, v1) EXCEPT !.scc = IF first THEN TRUE ELSE @]
        run    == isAsync /\ v1.track
    IN [R     |-> IF ~run /\ first THEN SetDep(R1, s, [v1 EXCEPT !.track = FALSE]) ELSE R1,
        run   |-> run,
        first |-> first]

\* subscriber.error that reports the failure of tracked entries only
OnErrorAsyncTracked(R, s) ==
    IF R.deps[s].track THEN ObserverError(R, ErrorOf(s)) ELSE R

\* subscriber.error, asynchronous
OnErrorAsync(R, s) == ObserverError(R, ErrorOf(s))

\* subscriber.complete that treats a source without a value like any other
OnCompleteTrackedOnly(R, s, isAsync) ==
    LET v  == R.deps[s]
        R1 == SetDep(R, s, [v EXCEPT !.completed = TRUE])
    IN IF isAsync /\ v.track THEN CheckCompletion(R1) ELSE R1

\* subscriber.complete that does not check for completion
OnCompleteNoCheck(R, s, isAsync) ==
    LET v  == R.deps[s]
        R1 == SetDep(R, s, [v EXCEPT !.completed = TRUE])
    IN IF ~v.hasValue THEN ObserverComplete(R1) ELSE R1

\* subscriber.complete
OnComplete(R, s, isAsync) ==
    LET v  == R.deps[s]
        R1 == SetDep(R, s, [v EXCEPT !.completed = TRUE])
        R2 == IF ~v.hasValue THEN ObserverComplete(R1) ELSE R1
    IN IF isAsync /\ v.track THEN CheckCompletion(R2) ELSE R2

\* the synchronous section of a tracker() whose subscriber keeps the first
\* value delivered while the source is being subscribed
RECURSIVE SyncSectionFirstValue(_, _, _, _)
SyncSectionFirstValue(S, s, evs, it) ==
    IF evs = <<>> THEN S
    ELSE LET e == Head(evs)
             v == S.R.deps[s]
         IN CASE e.type = "next" ->
                   SyncSectionFirstValue([S EXCEPT !.R = IF ~v.hasValue
                                                         THEN OnNext(S.R, s, e.val, FALSE).R
                                                         ELSE S.R],
                                         s, Tail(evs), it)
              [] e.type = "error" ->
                   [S EXCEPT !.hasSyncError = TRUE, !.syncError = ErrorOf(s)]
              [] OTHER ->
                   [R            |-> OnComplete(S.R, s, FALSE),
                    hasSyncError |-> S.hasSyncError \/ ~v.hasValue,
                    syncError    |-> IF ~v.hasValue THEN HALT_ERROR ELSE S.syncError]

\* the synchronous section of tracker(): the events a source delivers while
\* it is being subscribed; S = [R, hasSyncError, syncError]
RECURSIVE SyncSection(_, _, _, _)
SyncSection(S, s, evs, it) ==
    IF evs = <<>> THEN S
    ELSE LET e == Head(evs)
             v == S.R.deps[s]
         IN CASE e.type = "next" ->
                   SyncSection([S EXCEPT !.R = IF PassesFilter(v, e.val, it)
                                               THEN OnNext(S.R, s, e.val, FALSE).R
                                               ELSE S.R],
                               s, Tail(evs), it)
              [] e.type = "error" ->
                   [S EXCEPT !.hasSyncError = TRUE, !.syncError = ErrorOf(s)]
              [] OTHER ->
                   [R            |-> OnComplete(S.R, s, FALSE),
                    hasSyncError |-> S.hasSyncError \/ ~v.hasValue,
                    syncError    |-> IF ~v.hasValue THEN HALT_ERROR ELSE S.syncError]

\* tracker(o) that forgets the synchronous failure of the source
TrackerSkipsSyncError(R, s, track, strength, evs, it) ==
    IF R.deps[s].present
    THEN LET v  == R.deps[s]
             v1 == [v EXCEPT !.used = TRUE,
                             !.track = IF track /\ ~v.track THEN TRUE ELSE @,
                             !.strength = IF strength > v.strength THEN strength ELSE @]
         IN [R      |-> SetDep(R, s, v1),
             thrown |-> ~v.hasValue,
             val    |-> IF v.hasValue THEN v.value ELSE HALT_ERROR]
    ELSE LET S0 == [R |-> SetDep(R, s, NewEntry(track, strength)),
                    hasSyncError |-> FALSE, syncError |-> HALT_ERROR]
             S1 == SyncSection(S0, s, evs, it)
             v  == S1.R.deps[s]
         IN [R      |-> S1.R,
             thrown |-> ~v.hasValue,
             val    |-> IF v.hasValue THEN v.value ELSE HALT_ERROR]

\* tracker(o) that returns the empty value of an entry instead of halting
TrackerNoHalt(R, s, track, strength, evs, it) ==
    IF R.deps[s].present
    THEN LET v  == R.deps[s]
             v1 == [v EXCEPT !.used = TRUE,
                             !.track = IF track /\ ~v.track THEN TRUE ELSE @,
                             !.strength = IF strength > v.strength THEN strength ELSE @]
         IN [R      |-> SetDep(R, s, v1),
             thrown |-> FALSE,
             val    |-> v.value]
    ELSE LET S0 == [R |-> SetDep(R, s, NewEntry(track, strength)),
                    hasSyncError |-> FALSE, syncError |-> HALT_ERROR]
             S1 == SyncSection(S0, s, evs, it)
             v  == S1.R.deps[s]
         IN [R      |-> S1.R,
             thrown |-> S1.hasSyncError,
             val    |-> IF S1.hasSyncError THEN S1.syncError ELSE v.value]

\* tracker(o) that halts on an entry without a value before marking it used
TrackerHaltsUnmarked(R, s, track, strength, evs, it) ==
    IF R.deps[s].present
    THEN LET v  == R.deps[s]
             v1 == [v EXCEPT !.used = TRUE,
                             !.track = IF track /\ ~v.track THEN TRUE ELSE @,
                             !.strength = IF strength > v.strength THEN strength ELSE @]
         IN [R      |-> IF v.hasValue THEN SetDep(R, s, v1) ELSE R,
             thrown |-> ~v.hasValue,
             val    |-> IF v.hasValue THEN v.value ELSE HALT_ERROR]
    ELSE LET S0 == [R |-> Connect(SetDep(R, s, NewEntry(track, strength)), s),
                    hasSyncError |-> FALSE, syncError |-> HALT_ERROR]
             S1 == SyncSection(S0, s, evs, it)
             v  == S1.R.deps[s]
         IN [R      |-> S1.R,
             thrown |-> S1.hasSyncError \/ ~v.hasValue,
             val    |-> IF S1.hasSyncError THEN S1.syncError
                        ELSE IF v.hasValue THEN v.value ELSE HALT_ERROR]

\* tracker(o) that does not look the source up in deps: every call builds an
\* entry and subscribes the source
TrackerResubscribes(R, s, track, strength, evs, it) ==
    LET S0 == [R |-> Connect(SetDep(R, s, NewEntry(track, strength)), s),
               hasSyncError |-> FALSE, syncError |-> HALT_ERROR]
        S1 == SyncSection(S0, s, evs, it)
        v  == S1.R.deps[s]
    IN [R      |-> S1.R,
        thrown |-> S1.hasSyncError \/ ~v.hasValue,
        val    |-> IF S1.hasSyncError THEN S1.syncError
                   ELSE IF v.hasValue THEN v.value ELSE HALT_ERROR]

\* tracker(o) of createTracker(track, strength): [R, thrown, val]
Tracker(R, s, track, strength, evs, it) ==
    IF R.deps[s].present
    THEN LET v  == R.deps[s]
             v1 == [v EXCEPT !.used = TRUE,
                             !.track = IF track /\ ~v.track THEN TRUE ELSE @,
                             !.strength = IF strength > v.strength THEN strength ELSE @]
         IN [R      |-> SetDep(R, s, v1),
             thrown |-> ~v.hasValue,
             val    |-> IF v.hasValue THEN v.value ELSE HALT_ERROR]
    ELSE LET S0 == [R |-> Connect(SetDep(R, s, NewEntry(track, strength)), s),
                    hasSyncError |-> FALSE, syncError |-> HALT_ERROR]
             S1 == SyncSection(S0, s, evs, it)
             v  == S1.R.deps[s]
         IN [R      |-> S1.R,
             thrown |-> S1.hasSyncError \/ ~v.hasValue,
             val    |-> IF S1.hasSyncError THEN S1.syncError
                        ELSE IF v.hasValue THEN v.value ELSE HALT_ERROR]

\* runFn whose finally does not check for completion
RunFnEndNoCheck(R, lowered, thrown, val) ==
    IF ~thrown
    THEN ObserverNext(RemoveUnusedDeps(R, Normal), val)
    ELSE IF val = HALT_ERROR
         THEN RemoveUnusedDeps(RestoreStrength(R, lowered), Weak)
         ELSE [ObserverError(R, val) EXCEPT !.scc = FALSE]

\* runFn that checks for completion before it delivers the result
RunFnEndChecksFirst(R, lowered, thrown, val) ==
    IF ~thrown
    THEN LET R0 == RemoveUnusedDeps(R, Normal)
             R1 == IF R0.scc THEN CheckCompletion(R0) ELSE R0
         IN ObserverNext(R1, val)
    ELSE LET R1 == IF val = HALT_ERROR
                   THEN RemoveUnusedDeps(RestoreStrength(R, lowered), Weak)
                   ELSE [ObserverError(R, val) EXCEPT !.scc = FALSE]
         IN IF R1.scc THEN CheckCompletion(R1) ELSE R1

\* runFn whose catch treats every thrown value as the sentinel
RunFnEndLoose(R, lowered, thrown, val) ==
    LET R1 == IF ~thrown
              THEN ObserverNext(RemoveUnusedDeps(R, Normal), val)
              ELSE RemoveUnusedDeps(RestoreStrength(R, lowered), Weak)
    IN IF R1.scc THEN CheckCompletion(R1) ELSE R1

\* runFn that does not prune after a successful pass
RunFnEndKeepsUnused(R, lowered, thrown, val) ==
    LET R1 == IF ~thrown
              THEN ObserverNext(R, val)
              ELSE IF val = HALT_ERROR
                   THEN RemoveUnusedDeps(RestoreStrength(R, lowered), Weak)
                   ELSE [ObserverError(R, val) EXCEPT !.scc = FALSE]
    IN IF R1.scc THEN CheckCompletion(R1) ELSE R1

\* runFn whose catch does not restore the lowered strengths before pruning
RunFnEndNoRestore(R, lowered, thrown, val) ==
    LET R1 == IF ~thrown
              THEN ObserverNext(RemoveUnusedDeps(R, Normal), val)
              ELSE IF val = HALT_ERROR
                   THEN RemoveUnusedDeps(R, Weak)
                   ELSE [ObserverError(R, val) EXCEPT !.scc = FALSE]
    IN IF R1.scc THEN CheckCompletion(R1) ELSE R1

\* runFn from the end of fn(): try / catch / finally
RunFnEnd(R, lowered, thrown, val) ==
    LET R1 == IF ~thrown
              THEN ObserverNext(RemoveUnusedDeps(R, Normal), val)
              ELSE IF val = HALT_ERROR
                   THEN RemoveUnusedDeps(RestoreStrength(R, lowered), Weak)
                   ELSE [ObserverError(R, val) EXCEPT !.scc = FALSE]
    IN IF R1.scc THEN CheckCompletion(R1) ELSE R1

\* runFn from the return of fn(), when downstream unsubscribes while the
\* result is delivered to it
RunFnEndUnsubscribed(R, lowered, val) ==
    LET R1 == ObserverNextUnsubscribes(RemoveUnusedDeps(R, Normal), val)
    IN IF R1.scc THEN CheckCompletion(R1) ELSE R1

\* the rest of the caller of runFn() if a teardown attached to a stopped
\* subscriber were not run
AfterRunFnNoTeardown(R, c) ==
    IF R.initial
    THEN [R EXCEPT !.initial = FALSE]
    ELSE IF c # NoSource /\ R.deps[c].present
         THEN SetDep(R, c, [R.deps[c] EXCEPT !.track = FALSE])
         ELSE R

\* what runs after runFn() returns: `return sub` for the initial pass (the
\* teardown is attached to the subscriber, and runs if it is stopped); the
\* rest of subscriber.next for a pass started by a value
AfterRunFn(R, c) ==
    IF R.initial
    THEN LET R1 == [R EXCEPT !.initial = FALSE]
         IN IF R1.stopped THEN Unsubscribe(R1) ELSE R1
    ELSE IF c # NoSource /\ R.deps[c].present
         THEN SetDep(R, c, [R.deps[c] EXCEPT !.track = FALSE])
         ELSE R

\* ------------------------------------------------------------- the state
RunnerState ==
    [deps |-> deps, scc |-> shouldCheckCompletion, stopped |-> stopped,
     torn |-> torn, initial |-> initial, out |-> out, lastOut |-> lastOut,
     subs |-> subscriptions]

Commit(R) ==
    /\ deps' = R.deps
    /\ shouldCheckCompletion' = R.scc
    /\ stopped' = R.stopped
    /\ torn' = R.torn
    /\ initial' = R.initial
    /\ out' = R.out
    /\ lastOut' = R.lastOut
    /\ subscriptions' = R.subs

\* the connection of an entry still delivers the events of its source
Live(v) == v.subscription = "open" /\ ~v.completed

\* the latest step; count is the number of values the source emitted while
\* the step subscribed it
Event(type, s, val) == [type |-> type, src |-> s, val |-> val, count |-> 0]

\* ------------------------------------------- a runner read by a runner
\* const r1 = combined(() => $(o)); const r2 = combined(() => $(r1) + $(p));
\* r2 is subscribed. o and p are sources that never terminate.
NestedRunners == {"outer", "inner"}
NestedSources == {"inner", "p", "o"}

\* the sources the expression of runner X reads
Expression(X) == IF X = "outer" THEN {"inner", "p"} ELSE {"o"}

\* the runner whose expression reads source src
Reader(src) == IF src = "o" THEN "inner" ELSE "outer"

NoCall == [by |-> "none", src |-> "none", into |-> "none"]

\* nothing is subscribed: the module-level context is errorTracker, no runFn
\* is in progress, the registries are empty.
\*   reg[X]       the sources that have an entry in the deps of X
\*   hasValue[X]  those whose entry holds a value
\*   read[X]      those read in the latest pass of X (track and used)
\*   call         the accessor call of the latest step: the runner whose
\*                expression made it, the source, the runner it was registered with
NestedStart ==
    [ctx      |-> "errorTracker",
     stack    |-> <<>>,
     reg      |-> [X \in NestedRunners |-> {}],
     hasValue |-> [X \in NestedRunners |-> {}],
     read     |-> [X \in NestedRunners |-> {}],
     started  |-> FALSE,
     passes   |-> 0,
     call     |-> NoCall]

\* the runFn call in progress that was entered last
Top(N) == N.stack[Len(N.stack)]

\* runFn of X up to fn(): the entries are marked untracked and unused, the
\* context is saved in the local prevCtxt and newCtx of X is installed
NestedRunFn(N, X) ==
    [N EXCEPT !.stack  = Append(@, [runner |-> X, prevCtxt |-> N.ctx,
                                    pc |-> "fn", nreads |-> 0]),
              !.ctx    = X,
              !.read[X] = {},
              !.passes = @ + 1]

\* runFn whose finally installs errorTracker instead of the saved context
NestedRestoreGlobal(f) ==
    "errorTracker"

\* runFn, finally: context = prevCtxt
NestedRestore(f) ==
    f.prevCtxt

\* the end of the runFn call entered last
NestedFinally(N) ==
    [N EXCEPT !.stack = SubSeq(@, 1, Len(@) - 1),
              !.ctx   = NestedRestore(Top(N))]

\* removeUnusedDeps(Strength.Normal) of X after fn() returned; the entry of
\* the inner runner that goes takes the connections of the inner runner with it
NestedRemoveUnusedDeps(N, X) ==
    LET gone == N.reg[X] \ N.read[X]
        N1   == [N EXCEPT !.reg[X] = @ \cap N.read[X],
                          !.hasValue[X] = @ \cap N.read[X]]
    IN IF "inner" \in gone
       THEN [N1 EXCEPT !.reg["inner"] = {}, !.hasValue["inner"] = {},
                       !.read["inner"] = {}]
       ELSE N1

\* ------------------------------------- two connections to one runner
\* const r = combined(fn); r.subscribe(observer1); r.subscribe(observer2);
\* fn reads some of the sources through $(o), in the order of their numbers.
Conns == {1, 2}

\* the dependency map that the closures of connection c refer to, were the
\* map created once for the runner and not once per subscription
DepsOfDefinition(c) ==
    1

\* the dependency map that the closures of connection c refer to: the Map
\* created by the subscribe function of the Observable for this connection
DepsOf(c) ==
    c

\* an entry of a dependency map; sub is the connection that subscribed the
\* source for this entry
NoConnEntry ==
    [present |-> FALSE, hasValue |-> FALSE, value |-> NoValue, track |-> FALSE,
     completed |-> FALSE, sub |-> 0]

\* nothing is subscribed.
\*   map[m][s]   the entry of source s in dependency map m
\*   open        the upstream connections that are open: <<c, s>> was opened
\*               by connection c to source s
\*   alive[c]    "new", "open", or how it ended: "closed", "completed", "failed"
\*   read[c]     the sources the latest pass of c read
\*   results[c]  how many results the observer of c received, and the latest
\*   by          the connection whose handler ran in the latest step
ConnsStart ==
    [map     |-> [m \in Conns |-> [s \in Sources |-> NoConnEntry]],
     open    |-> {},
     alive   |-> [c \in Conns |-> "new"],
     read    |-> [c \in Conns |-> {}],
     results |-> [c \in Conns |-> [count |-> 0, latest |-> NoValue]],
     passes  |-> 0,
     by      |-> 0]

\* fn() of connection c reading the sources of seq in turn: tracker(o) for
\* each, up to the first that has no value. sv is what a source delivers at
\* once when it is subscribed (NoValue: nothing).
RECURSIVE ConnReads(_, _, _, _)
ConnReads(C, c, seq, sv) ==
    IF seq = <<>>
    THEN [C |-> C, halted |-> FALSE, result |-> 0]
    ELSE LET s  == Head(seq)
             m  == DepsOf(c)
             e  == C.map[m][s]
             C1 == IF e.present
                   THEN [C EXCEPT !.map[m][s].track = TRUE,
                                  !.read[c] = @ \cup {s}]
                   ELSE [C EXCEPT !.map[m][s] = [present |-> TRUE,
                                                 hasValue |-> sv # NoValue,
                                                 value |-> sv,
                                                 track |-> TRUE,
                                                 completed |-> FALSE, sub |-> c],
                                  !.open = @ \cup {<<c, s>>},
                                  !.read[c] = @ \cup {s}]
             e1 == C1.map[m][s]
         IN IF ~e1.hasValue
            THEN [C |-> C1, halted |-> TRUE, result |-> 0]
            ELSE LET r == ConnReads(C1, c, Tail(seq), sv)
                 IN [r EXCEPT !.result = @ + e1.value]

\* the sources of a set in the order of their numbers
RECURSIVE InOrder(_)
InOrder(S) ==
    IF S = {} THEN <<>>
    ELSE LET s == CHOOSE x \in S : \A y \in S : x <= y
         IN <<s>> \o InOrder(S \ {s})

\* runFn of connection c: the entries of its map are marked untracked, fn()
\* reads the sources of rd; if it returns, the entries it did not read are
\* unsubscribed and removed, and the result goes to the observer of c
ConnRunFn(C, c, rd, sv) ==
    LET m  == DepsOf(c)
        C0 == [C EXCEPT !.map[m] = [s \in Sources |-> [@[s] EXCEPT !.track = FALSE]],
                        !.read[c] = {},
                        !.passes = @ + 1]
        r  == ConnReads(C0, c, InOrder(rd), sv)
        unused == {s \in Sources : r.C.map[m][s].present /\ ~r.C.map[m][s].track}
    IN IF r.halted
       THEN r.C
       ELSE [r.C EXCEPT !.map[m] = [s \in Sources |->
                                       IF s \in unused THEN NoConnEntry ELSE @[s]],
                        !.open = @ \ {<<r.C.map[m][s].sub, s>> : s \in unused},
                        !.results[c] = [count |-> @.count + 1, latest |-> r.result]]

\* connection c ends: the teardown unsubscribes every entry of its map, which
\* no event handler refers to any more
ConnTerminate(C, c, how) ==
    LET m == DepsOf(c)
    IN [C EXCEPT !.open = @ \ {<<C.map[m][s].sub, s>> :
                                  s \in {x \in Sources : C.map[m][x].present}},
                 !.map[m] = [s \in Sources |-> NoConnEntry],
                 !.alive[c] = how,
                 !.read[c] = {}]

\* checkCompletion of connection c
ConnCheckCompletion(C, c) ==
    LET m == DepsOf(c)
    IN IF \E s \in Sources :
             C.map[m][s].present /\ C.map[m][s].track /\ ~C.map[m][s].completed
       THEN C
       ELSE ConnTerminate(C, c, "completed")

\* the state after construction, the recording of `before` left open
InitRunner ==
    /\ deps = [s \in Sources |-> NoEntry]
    /\ shouldCheckCompletion = TRUE
    /\ loweredStrengthDeps = {}
    /\ context = "errorTracker"
    /\ prevCtxt = "errorTracker"
    /\ inputType \in {Distinct, Raw}
    /\ stopped = FALSE
    /\ torn = FALSE
    /\ initial = TRUE
    /\ out = <<>>
    /\ lastOut = NoValue
    /\ pc = "start"
    /\ acc = 0
    /\ nreads = 0
    /\ cont = NoSource
    /\ passes = 0
    /\ readT = {}
    /\ readU = {}
    /\ lastPass = "none"
    /\ haltOn = NoSource
    /\ ev = Event("new", NoSource, NoValue)
    /\ released = {}
    /\ strongRead = {}
    /\ requested = [s \in Sources |-> NoStrength]

\* a recording that is off, and a scenario that is not run
Off      == [on |-> FALSE]
NotInUse == <<>>

\* one connection of one runner
InitSingle == InitRunner /\ nest = NotInUse /\ conns = NotInUse

Init == InitSingle /\ before = Off /\ delivered = Off /\ subscriptions = Off

\* the record of `before` dropped, one step after the pass it belongs to
Forgotten ==
    IF before.on THEN [on |-> TRUE, deps |-> [s \in Sources |-> NoEntry]] ELSE before

\* runFn up to the call of fn(): R is the runner state left by the caller,
\* c the source whose first untracked value started the pass
BeginRunFn(R, c) ==
    /\ Commit([R EXCEPT !.deps = MarkDeps(R.deps)])
    /\ loweredStrengthDeps' = LoweredStrengthDeps(R.deps)
    /\ prevCtxt' = context
    /\ context' = "newCtx"
    /\ pc' = "fn"
    /\ acc' = 0
    /\ nreads' = 0
    /\ cont' = c
    /\ passes' = passes + 1
    /\ readT' = {}
    /\ readU' = {}
    /\ released' = {}
    /\ requested' = [s \in Sources |-> NoStrength]
    /\ before' = IF before.on THEN [on |-> TRUE, deps |-> R.deps] ELSE before
    /\ UNCHANGED <<lastPass, haltOn, delivered>>

\* the names exported for the accessors and the forms of each
TrackerNames == {"$", "_"}
FormNames    == {"call", "weak", "normal", "strong"}

\* forwardTracker(tracker) called in one of its forms while ctx is installed:
\* errorTracker throws in all its forms, the trackers of a runner take the
\* call with their track flag and their strength
ForwardTracker(ctx, tracker, form) ==
    IF ctx = "errorTracker"
    THEN [throws |-> TRUE, track |-> FALSE, strength |-> NoStrength]
    ELSE [throws   |-> FALSE,
          track    |-> tracker = "$",
          strength |-> CASE form = "weak" -> Weak
                         [] form = "strong" -> Strong
                         [] OTHER -> Normal]

\* runFn that puts the saved context back at the end of the try block only
ContextAfterTryOnly(thrown) ==
    IF thrown THEN context ELSE prevCtxt

\* runFn, finally: the context saved before the pass is installed again
ContextAfter(thrown) ==
    prevCtxt

\* computed(fn) without distinctUntilChanged() on its results
DistinctUntilChangedOff(seq, x) ==
    TRUE

\* distinctUntilChanged() on the results of computed(fn): x passes if it is the
\* first result or differs from the latest result that passed
DistinctUntilChanged(seq, x) ==
    seq = <<>> \/ seq[Len(seq)] # x

\* the end of a pass: E is the runner state that try / catch / finally of
\* runFn leave, starting from R at the end of fn(); then the rest of the caller
EndRunFnAfter(E, R, thrown, val, h) ==
    /\ Commit(AfterRunFn(E, cont))
    /\ released' = {s \in Sources : R.deps[s].present /\ ~deps'[s].present}
    /\ UNCHANGED loweredStrengthDeps
    /\ context' = ContextAfter(thrown)
    /\ pc' = "idle"
    /\ acc' = 0
    /\ nreads' = 0
    /\ cont' = NoSource
    /\ haltOn' = h
    /\ lastPass' = IF ~thrown THEN "succeeded"
                   ELSE IF val = HALT_ERROR THEN "aborted" ELSE "failed"
    /\ delivered' = IF delivered.on /\ ~thrown /\ ~R.stopped
                         /\ (inputType = Distinct => DistinctUntilChanged(delivered.seq, val))
                     THEN [delivered EXCEPT !.seq = Append(@, val)]
                     ELSE delivered
    /\ UNCHANGED <<prevCtxt, passes, before>>

\* runFn from the end of fn() and the rest of the caller
EndRunFn(R, thrown, val, h) ==
    EndRunFnAfter(RunFnEnd(R, loweredStrengthDeps, thrown, val), R, thrown, val, h)

\* new Observable(observer => ...) is subscribed: the initial runFn()
Subscribe ==
    /\ pc = "start"
    /\ BeginRunFn(RunnerState, NoSource)
    /\ ev' = Event("subscribe", NoSource, NoValue)
    /\ UNCHANGED <<nest, conns, inputType, strongRead>>

\* the expression calls $(s), _(s) or one of their weak / normal / strong forms
Access(s, track, strength, evs) ==
    /\ pc = "fn"
    /\ nreads < MaxReads
    /\ deps[s].present => evs = <<>>      \* nothing is subscribed for an existing entry
    /\ LET T == Tracker(RunnerState, s, track, strength, evs, inputType)
       IN /\ readT' = IF track THEN readT \cup {s} ELSE readT
          /\ readU' = IF track THEN readU ELSE readU \cup {s}
          /\ ev' = [Event("access", s, IF deps[s].present THEN NoValue
                                        ELSE SyncDelivery(s, evs))
                       EXCEPT !.count = Len(NextsOf(evs))]
          /\ IF T.thrown
             THEN EndRunFn(T.R, TRUE, T.val, IF T.val = HALT_ERROR THEN s ELSE NoSource)
             ELSE /\ Commit(T.R)
                  /\ acc' = acc + T.val
                  /\ nreads' = nreads + 1
                  /\ UNCHANGED <<loweredStrengthDeps, context, prevCtxt, pc, cont,
                                 passes, lastPass, haltOn, released, before,
                                 delivered>>
    /\ strongRead' = IF strength = Strong THEN strongRead \cup {s} ELSE strongRead
    /\ requested' = [requested EXCEPT ![s] = IF strength > @ THEN strength ELSE @]
    /\ UNCHANGED <<nest, conns, inputType>>

\* the expression returns
FnReturn ==
    /\ pc = "fn"
    /\ EndRunFn(RunnerState, FALSE, acc, NoSource)
    /\ ev' = Event("return", NoSource, acc)
    /\ UNCHANGED <<nest, conns, inputType, readT, readU, strongRead, requested>>

\* the expression returns, and downstream unsubscribes while it receives the
\* result (as take(1) does, or an observer that calls unsubscribe in next)
FnReturnUnsubscribed ==
    /\ pc = "fn"
    /\ EndRunFnAfter(RunFnEndUnsubscribed(RunnerState, loweredStrengthDeps, acc),
                     RunnerState, FALSE, acc, NoSource)
    /\ ev' = Event("returnUnsubscribed", NoSource, acc)
    /\ UNCHANGED <<nest, conns, inputType, readT, readU, strongRead, requested>>

\* the expression throws a value of its own
FnThrow ==
    /\ pc = "fn"
    /\ EndRunFn(RunnerState, TRUE, UserError, NoSource)
    /\ ev' = Event("throw", NoSource, UserError)
    /\ UNCHANGED <<nest, conns, inputType, readT, readU, strongRead, requested>>

\* the source of a connected entry emits a value
SrcNext(s, value) ==
    /\ pc = "idle"
    /\ Live(deps[s])
    /\ passes < MaxPasses
    /\ ev' = Event("next", s, value)
    /\ UNCHANGED <<nest, conns, inputType, strongRead>>
    /\ IF PassesFilter(deps[s], value, inputType)
       THEN LET N == OnNext(RunnerState, s, value, TRUE)
            IN IF N.run
               THEN BeginRunFn(N.R, IF N.first THEN s ELSE NoSource)
               ELSE /\ Commit(N.R)
                    /\ released' = {}
                    /\ before' = Forgotten /\ UNCHANGED delivered
                    /\ requested' = [t \in Sources |-> NoStrength]
                    /\ loweredStrengthDeps' = {}
                    /\ UNCHANGED <<context, prevCtxt, pc, acc, nreads,
                                   cont, passes, readT, readU, lastPass, haltOn>>
       ELSE /\ released' = {}
            /\ before' = Forgotten /\ UNCHANGED delivered
            /\ loweredStrengthDeps' = {}
            /\ requested' = [t \in Sources |-> NoStrength]
            /\ UNCHANGED <<deps, shouldCheckCompletion, stopped, torn, initial, out, lastOut,
                           subscriptions, context, prevCtxt, pc, acc, nreads,
                           cont, passes, readT, readU, lastPass, haltOn>>

\* the source of a connected entry completes
SrcComplete(s) ==
    /\ pc = "idle"
    /\ Live(deps[s])
    /\ ev' = Event("complete", s, NoValue)
    /\ Commit(OnComplete(RunnerState, s, TRUE))
    /\ released' = {}
    /\ before' = Forgotten /\ UNCHANGED delivered
    /\ requested' = [t \in Sources |-> NoStrength]
    /\ loweredStrengthDeps' = {}
    /\ UNCHANGED <<nest, conns, inputType, strongRead, context, prevCtxt, pc,
                   acc, nreads, cont, passes, readT, readU, lastPass, haltOn>>

\* the source of a connected entry fails
SrcError(s) ==
    /\ pc = "idle"
    /\ Live(deps[s])
    /\ ev' = Event("error", s, ErrorOf(s))
    /\ Commit(OnErrorAsync(RunnerState, s))
    /\ released' = {}
    /\ before' = Forgotten /\ UNCHANGED delivered
    /\ requested' = [t \in Sources |-> NoStrength]
    /\ loweredStrengthDeps' = {}
    /\ UNCHANGED <<nest, conns, inputType, strongRead, context, prevCtxt, pc,
                   acc, nreads, cont, passes, readT, readU, lastPass, haltOn>>

\* a source for which the runner has no entry and to which it holds no
\* connection emits a value, completes or fails: no subscriber of the runner
\* is there to be called
SrcUnheard(s, e) ==
    /\ pc = "idle"
    /\ ~deps[s].present /\ deps[s].subscription = "closed"
    /\ ev' = e
    /\ before' = Forgotten
    /\ requested' = [t \in Sources |-> NoStrength]
    /\ loweredStrengthDeps' = {}
    /\ UNCHANGED <<deps, shouldCheckCompletion, stopped, torn, initial, out, lastOut,
                   subscriptions, released, delivered, nest, conns, inputType,
                   strongRead, context, prevCtxt, pc, acc, nreads, cont, passes,
                   readT, readU, lastPass, haltOn>>

\* downstream unsubscribes
Teardown ==
    /\ pc = "idle"
    /\ ~stopped
    /\ Commit(Unsubscribe([RunnerState EXCEPT !.stopped = TRUE]))
    /\ ev' = Event("unsubscribe", NoSource, NoValue)
    /\ released' = {}
    /\ before' = Forgotten /\ UNCHANGED delivered
    /\ requested' = [t \in Sources |-> NoStrength]
    /\ loweredStrengthDeps' = {}
    /\ UNCHANGED <<nest, conns, inputType, strongRead, context,
                   prevCtxt, pc, acc, nreads, cont, passes, readT, readU, lastPass, haltOn>>

Next ==
    \/ Subscribe
    \/ \E s \in Sources, track \in BOOLEAN, strength \in Strengths, evs \in SyncEvents :
          Access(s, track, strength, evs)
    \/ FnReturn
    \/ FnThrow
    \/ \E s \in Sources, value \in Values : SrcNext(s, value)
    \/ \E s \in Sources : SrcComplete(s)
    \/ \E s \in Sources : SrcError(s)
    \/ Teardown

Spec == Init /\ [][Next]_vars

\* the runner of an expression that uses only the default forms $(o) and _(o)
NextDefault ==
    \/ Subscribe
    \/ \E s \in Sources, track \in BOOLEAN, evs \in SyncEvents : Access(s, track, Normal, evs)
    \/ FnReturn
    \/ FnThrow
    \/ \E s \in Sources, value \in Values : SrcNext(s, value)
    \/ \E s \in Sources : SrcComplete(s)
    \/ \E s \in Sources : SrcError(s)
    \/ Teardown

SpecDefault == Init /\ [][NextDefault]_vars

\* the runner of an expression that reads its sources through _(o) only
NextUntracked ==
    \/ Subscribe
    \/ \E s \in Sources, evs \in SyncEvents : Access(s, FALSE, Normal, evs)
    \/ FnReturn
    \/ FnThrow
    \/ \E s \in Sources, value \in Values : SrcNext(s, value)
    \/ \E s \in Sources : SrcComplete(s)
    \/ \E s \in Sources : SrcError(s)
    \/ Teardown

SpecUntracked == Init /\ [][NextUntracked]_vars

\* combined(fn): the runner with InputType.Raw
InitCombined == Init /\ inputType = Raw

\* the runner of an expression that reads its sources through $(o),
\* $.weak(o), $.normal(o) and $.strong(o)
NextStrength ==
    \/ Subscribe
    \/ \E s \in Sources, strength \in Strengths, evs \in SyncEvents :
          Access(s, TRUE, strength, evs)
    \/ FnReturn
    \/ FnThrow
    \/ \E s \in Sources, value \in Values : SrcNext(s, value)
    \/ \E s \in Sources : SrcComplete(s)
    \/ \E s \in Sources : SrcError(s)
    \/ Teardown

SpecStrength == InitCombined /\ [][NextStrength]_vars

\* the sources the expression of SpecPeek reads through _(o); it reads the
\* others through $(o)
Peeked == {1}

\* the runner of an expression that reads every source through one accessor
\* only: _(o) for the sources of Peeked, $(o) for the others
NextPeek ==
    \/ Subscribe
    \/ \E s \in Sources, evs \in SyncEvents : Access(s, s \notin Peeked, Normal, evs)
    \/ FnReturn
    \/ FnThrow
    \/ \E s \in Sources, value \in Values : SrcNext(s, value)
    \/ \E s \in Sources : SrcComplete(s)
    \/ \E s \in Sources : SrcError(s)
    \/ Teardown

SpecPeek == Init /\ [][NextPeek]_vars

\* combined(fn), with the dependency map recorded at the start of each pass
InitRecording ==
    /\ InitSingle /\ inputType = Raw
    /\ before = [on |-> TRUE, deps |-> [s \in Sources |-> NoEntry]]
    /\ delivered = Off /\ subscriptions = Off

\* the runs of $.weak / $.normal / $.strong expressions that neither throw
\* nor are torn down, over sources that neither complete nor fail
NextRecording ==
    \/ Subscribe
    \/ \E s \in Sources, strength \in Strengths, evs \in SyncValues :
          Access(s, TRUE, strength, evs)
    \/ FnReturn
    \/ \E s \in Sources, value \in Values : SrcNext(s, value)

SpecRecording == InitRecording /\ [][NextRecording]_vars

\* combined(fn) or computed(fn), with the results its subscriber receives
\* recorded
InitResults ==
    /\ InitSingle
    /\ before = Off /\ subscriptions = Off
    /\ delivered = [on |-> TRUE, seq |-> <<>>]

\* the runs of $(o) expressions that do not throw
NextResults ==
    \/ Subscribe
    \/ \E s \in Sources, evs \in SyncEvents : Access(s, TRUE, Normal, evs)
    \/ FnReturn
    \/ \E s \in Sources, value \in Values : SrcNext(s, value)
    \/ \E s \in Sources : SrcComplete(s)
    \/ \E s \in Sources : SrcError(s)
    \/ Teardown

SpecResults == InitResults /\ [][NextResults]_vars

\* the runs of $(o) expressions that return, over sources that emit up to two
\* values when subscribed and do not fail
NextBurst ==
    \/ Subscribe
    \/ \E s \in Sources, evs \in SyncBursts : Access(s, TRUE, Normal, evs)
    \/ FnReturn
    \/ \E s \in Sources, value \in Values : SrcNext(s, value)
    \/ \E s \in Sources : SrcComplete(s)

SpecBurst == Init /\ [][NextBurst]_vars

\* combined(fn), with the connections it opens and unsubscribes counted
InitCounting ==
    /\ InitSingle /\ inputType = Raw
    /\ before = Off /\ delivered = Off
    /\ subscriptions = [on |-> TRUE, n |-> [s \in Sources |-> 0]]

\* the runs of expressions that read their sources through $(o) and
\* $.weak(o) and do not throw
NextCounting ==
    \/ Subscribe
    \/ \E s \in Sources, strength \in {Weak, Normal}, evs \in SyncEvents :
          Access(s, TRUE, strength, evs)
    \/ FnReturn
    \/ \E s \in Sources, value \in Values : SrcNext(s, value)
    \/ \E s \in Sources : SrcComplete(s)
    \/ \E s \in Sources : SrcError(s)
    \/ Teardown

SpecCounting == InitCounting /\ [][NextCounting]_vars

\* accessor forms of three kinds: $(o), _(o), $.weak(o)
MixedForms == {<<TRUE, Normal>>, <<FALSE, Normal>>, <<TRUE, Weak>>}

\* the runs of expressions that read their sources through a mix of these
\* forms and return, over sources that neither complete nor fail
NextForms ==
    \/ Subscribe
    \/ \E s \in Sources, form \in MixedForms, evs \in SyncValues :
          Access(s, form[1], form[2], evs)
    \/ FnReturn
    \/ \E s \in Sources, value \in Values : SrcNext(s, value)

SpecForms == InitCounting /\ [][NextForms]_vars

\* the runs of $(o) / _(o) expressions whose subscriber may unsubscribe at any
\* time, also while it receives a result
NextUnsubscribing ==
    \/ Subscribe
    \/ \E s \in Sources, track \in BOOLEAN, evs \in SyncEvents : Access(s, track, Normal, evs)
    \/ FnReturn
    \/ FnReturnUnsubscribed
    \/ FnThrow
    \/ \E s \in Sources, value \in Values : SrcNext(s, value)
    \/ \E s \in Sources : SrcComplete(s)
    \/ \E s \in Sources : SrcError(s)
    \/ Teardown

SpecUnsubscribing == InitCounting /\ [][NextUnsubscribing]_vars

\* what source s may do: emit a value, complete, fail
SourceEvents(s) ==
    {Event("next", s, x) : x \in Values}
       \cup {Event("complete", s, NoValue), Event("error", s, ErrorOf(s))}

\* the runs of $(o) / _(o) expressions that do not throw, with the events of
\* the sources the runner is not connected to
NextPruned ==
    \/ Subscribe
    \/ \E s \in Sources, track \in BOOLEAN, evs \in SyncEvents : Access(s, track, Normal, evs)
    \/ FnReturn
    \/ \E s \in Sources, value \in Values : SrcNext(s, value)
    \/ \E s \in Sources : SrcComplete(s)
    \/ \E s \in Sources : SrcError(s)
    \/ \E s \in Sources : \E e \in SourceEvents(s) : SrcUnheard(s, e)
    \/ Teardown

SpecPruned == InitCombined /\ [][NextPruned]_vars

\* the variables of the single runner, which the two runners leave alone
runnerVars == <<deps, shouldCheckCompletion, loweredStrengthDeps, context, prevCtxt,
                inputType, stopped, torn, initial, out, lastOut, pc, acc, nreads, cont,
                passes, readT, readU, lastPass, haltOn, ev, released,
                strongRead, requested, before, delivered, conns, subscriptions>>

\* r2.subscribe(observer): the initial runFn of the outer runner
NestedSubscribe ==
    /\ ~nest.started /\ nest.stack = <<>>
    /\ nest' = NestedRunFn([nest EXCEPT !.started = TRUE, !.call = NoCall], "outer")
    /\ UNCHANGED runnerVars

\* the expression in progress calls $(src); forwardTracker hands the call to
\* the tracker of the installed context, which registers src in the deps of
\* its own runner. sync: a source subscribed for the first time delivers a
\* value at once. Subscribing the inner runner runs its initial runFn inside
\* the call.
NestedAccess(src, sync) ==
    /\ nest.stack # <<>>
    /\ LET f   == Top(nest)
           top == Len(nest.stack)
           R   == nest.ctx
       IN /\ f.pc = "fn" /\ f.nreads < MaxReads
          /\ src \in Expression(f.runner)
          /\ IF R = "errorTracker"
             THEN /\ ~sync
                  /\ nest' = NestedFinally([nest EXCEPT !.call =
                                 [by |-> f.runner, src |-> src, into |-> "TrackerError"]])
             ELSE LET new == src \notin nest.reg[R]
                      N1  == [nest EXCEPT !.reg[R] = @ \cup {src},
                                          !.read[R] = @ \cup {src},
                                          !.stack[top].nreads = @ + 1,
                                          !.call = [by |-> f.runner, src |-> src, into |-> R]]
                  IN /\ sync => (new /\ src # "inner")
                     /\ nest' =
                          IF new /\ src = "inner"
                          THEN NestedRunFn([N1 EXCEPT !.stack[top].pc = "tracker"], "inner")
                          ELSE IF sync
                               THEN [N1 EXCEPT !.hasValue[R] = @ \cup {src}]
                               ELSE IF src \in N1.hasValue[R]
                                    THEN N1
                                    ELSE NestedFinally(N1)      \* throw HALT_ERROR
    /\ UNCHANGED runnerVars

\* the subscription of the inner runner returns into the tracker of the
\* outer one, which returns the value it got or throws HALT_ERROR
NestedTrackerResume ==
    /\ nest.stack # <<>>
    /\ LET f   == Top(nest)
           top == Len(nest.stack)
       IN /\ f.pc = "tracker"
          /\ nest' = IF "inner" \in nest.hasValue[f.runner]
                     THEN [nest EXCEPT !.stack[top].pc = "fn", !.call = NoCall]
                     ELSE NestedFinally([nest EXCEPT !.call = NoCall])
    /\ UNCHANGED runnerVars

\* fn() of the runFn call in progress returns: removeUnusedDeps, then
\* observer.next(result). The result of the inner runner goes to the
\* subscriber of its entry in the outer runner, which stores it and, if it
\* comes after the accessor call returned and the entry is tracked, calls the
\* runFn of the outer runner from there.
NestedReturn ==
    /\ nest.stack # <<>>
    /\ LET f   == Top(nest)
           top == Len(nest.stack)
           N1  == [NestedRemoveUnusedDeps(nest, f.runner) EXCEPT !.call = NoCall]
           isAsync == \A i \in 1..top :
                         ~(nest.stack[i].runner = "outer" /\ nest.stack[i].pc = "tracker")
       IN /\ f.pc = "fn"
          /\ nest' =
               IF f.runner = "outer" \/ "inner" \notin N1.reg["outer"]
               THEN NestedFinally(N1)
               ELSE LET N2 == [N1 EXCEPT !.hasValue["outer"] = @ \cup {"inner"}]
                    IN IF isAsync /\ "inner" \in N2.read["outer"]
                       THEN NestedRunFn([N2 EXCEPT !.stack[top].pc = "next"], "outer")
                       ELSE NestedFinally(N2)
    /\ UNCHANGED runnerVars

\* observer.next(result) of the inner runner returns: the rest of its runFn
NestedNextReturns ==
    /\ nest.stack # <<>>
    /\ Top(nest).pc = "next"
    /\ nest' = NestedFinally([nest EXCEPT !.call = NoCall])
    /\ UNCHANGED runnerVars

\* o or p emits a value while nothing runs: the subscriber of its entry stores
\* it and, if the entry is tracked, calls runFn
NestedSrcNext(src) ==
    /\ nest.stack = <<>> /\ nest.passes < MaxPasses
    /\ src \in {"o", "p"} /\ src \in nest.reg[Reader(src)]
    /\ LET X  == Reader(src)
           N1 == [nest EXCEPT !.hasValue[X] = @ \cup {src}, !.call = NoCall]
       IN nest' = IF src \in nest.read[X] THEN NestedRunFn(N1, X) ELSE N1
    /\ UNCHANGED runnerVars

NextNested ==
    \/ NestedSubscribe
    \/ \E src \in NestedSources, sync \in BOOLEAN : NestedAccess(src, sync)
    \/ NestedTrackerResume
    \/ NestedReturn
    \/ NestedNextReturns
    \/ \E src \in NestedSources : NestedSrcNext(src)

\* nothing is subscribed yet, the single runner is left aside
InitNested ==
    /\ InitRunner /\ inputType = Raw
    /\ before = Off /\ delivered = Off /\ subscriptions = Off
    /\ nest = NestedStart /\ conns = NotInUse

SpecNested == InitNested /\ [][NextNested]_vars

\* the variables that the two connections leave alone
singleVars == <<deps, shouldCheckCompletion, loweredStrengthDeps, context, prevCtxt,
                inputType, stopped, torn, initial, out, lastOut, pc, acc, nreads, cont,
                passes, readT, readU, lastPass, haltOn, ev, released,
                strongRead, requested, before, delivered, nest, subscriptions>>

\* r.subscribe(observer) for connection c: the initial runFn, which checks
\* for completion at its end
ConnSubscribe(c, rd, sv) ==
    /\ conns.alive[c] = "new"
    /\ conns' = ConnCheckCompletion(
                   ConnRunFn([conns EXCEPT !.alive[c] = "open", !.by = c], c, rd, sv), c)
    /\ UNCHANGED singleVars

\* source s delivers value through the upstream connection that connection c
\* opened: subscriber.next of the entry stores it and, if the entry is
\* tracked, calls runFn
ConnNext(c, s, value, rd, sv) ==
    /\ <<c, s>> \in conns.open
    /\ conns.passes < MaxPasses
    /\ LET m  == DepsOf(c)
           C1 == [conns EXCEPT !.map[m][s].hasValue = TRUE,
                               !.map[m][s].value = value,
                               !.by = c]
       IN IF conns.map[m][s].track
          THEN conns' = ConnRunFn(C1, c, rd, sv)
          ELSE rd = {} /\ sv = NoValue /\ conns' = C1
    /\ UNCHANGED singleVars

\* source s completes on the upstream connection that connection c opened
ConnComplete(c, s) ==
    /\ <<c, s>> \in conns.open
    /\ LET m  == DepsOf(c)
           C1 == [conns EXCEPT !.map[m][s].completed = TRUE,
                               !.open = @ \ {<<c, s>>},
                               !.by = c]
       IN conns' = IF ~conns.map[m][s].hasValue
                   THEN ConnTerminate(C1, c, "completed")
                   ELSE IF conns.map[m][s].track
                        THEN ConnCheckCompletion(C1, c)
                        ELSE C1
    /\ UNCHANGED singleVars

\* source s fails on the upstream connection that connection c opened
ConnError(c, s) ==
    /\ <<c, s>> \in conns.open
    /\ conns' = ConnTerminate([conns EXCEPT !.by = c], c, "failed")
    /\ UNCHANGED singleVars

\* the observer of connection c unsubscribes
ConnTeardown(c) ==
    /\ conns.alive[c] = "open"
    /\ conns' = ConnTerminate([conns EXCEPT !.by = c], c, "closed")
    /\ UNCHANGED singleVars

NextConns ==
    \/ \E c \in Conns, rd \in SUBSET Sources, sv \in Values \cup {NoValue} :
          ConnSubscribe(c, rd, sv)
    \/ \E c \in Conns, s \in Sources, value \in Values,
          rd \in SUBSET Sources, sv \in Values \cup {NoValue} :
          ConnNext(c, s, value, rd, sv)
    \/ \E c \in Conns, s \in Sources : ConnComplete(c, s)
    \/ \E c \in Conns, s \in Sources : ConnError(c, s)
    \/ \E c \in Conns : ConnTeardown(c)

\* nothing is subscribed yet, the single runner is left aside
InitConns ==
    /\ InitRunner /\ inputType = Raw
    /\ before = Off /\ delivered = Off /\ subscriptions = Off
    /\ nest = NotInUse /\ conns = ConnsStart

SpecConns == InitConns /\ [][NextConns]_vars

TypeOK ==
    /\ pc \in {"start", "fn", "idle"}
    /\ before.on \in BOOLEAN
    /\ delivered.on \in BOOLEAN /\ (delivered.on => Len(delivered.seq) <= MaxPasses)
    /\ passes \in 0..MaxPasses
    /\ Len(out) <= MaxPasses + 1

\* ================================================================ claims
Last(q) == q[Len(q)]

\* the step is the delivery of a value / completion / failure of source s
IsNext(s)     == ev'.type = "next" /\ ev'.src = s
IsComplete(s) == ev'.type = "complete" /\ ev'.src = s
IsError(s)    == ev'.type = "error" /\ ev'.src = s

\* the step is a call of an accessor for source s by the running expression
IsAccess(s)   == pc = "fn" /\ ev'.type = "access" /\ ev'.src = s

\* the step delivers a signal downstream
Emits(type) == out' = Append(out, type)

\* C1: a new asynchronous value of an entry that holds a value and was read only
\* through _ in the latest pass starts no pass and changes no output; a new
\* distinct asynchronous value of a source read through $ in the latest
\* successful pass starts exactly one pass.
C1_UntrackedSilentTrackedRuns ==
    [][\A s \in Sources :
          IsNext(s) =>
            /\ (deps[s].hasValue /\ s \in readU \ readT)
                  => (pc' = "idle" /\ out' = out /\ passes' = passes)
            /\ (lastPass = "succeeded" /\ s \in readT /\ deps[s].value # ev'.val)
                  => (pc' = "fn" /\ passes' = passes + 1)]_vars

\* C2: between two passes, every entry the latest pass read through $ has
\* track = TRUE.
C2_TrackedReadKeepsTrack ==
    (pc = "idle" /\ lastPass \in {"succeeded", "aborted"})
        => \A s \in readT : deps[s].present => deps[s].track

\* the step completes an entry that never had a value
ValuelessCompletion ==
    \E s \in Sources :
        deps'[s].present /\ deps'[s].completed /\ ~deps'[s].hasValue /\ ~deps[s].completed

\* C3: completion is emitted only when every entry with track = TRUE has
\* completed (the completion of a source without a value aside), and the
\* completion of a source read only through _ emits nothing.
C3_CompletionOnlyWhenTrackedCompleted ==
    [][/\ (Emits("complete") /\ ~ValuelessCompletion)
            => \A s \in Sources : (deps'[s].present /\ deps'[s].track) => deps'[s].completed
       /\ \A s \in Sources :
            (IsComplete(s) /\ deps[s].hasValue /\ s \in readU \ readT) => out' = out]_vars

\* both sources are tracked, both completed asynchronously, completion went out
C3_Witness ==
    /\ pc = "idle"
    /\ out # <<>> /\ Last(out) = "complete"
    /\ ev.type = "complete"
    /\ \A s \in Sources :
          deps[s].present /\ deps[s].track /\ deps[s].completed /\ deps[s].hasValue

\* C4: whenever no pass is running and the runner has not terminated, some
\* entry with track = TRUE has not completed.
C4_CompletesAsSoonAsTrackedCompleted ==
    (pc = "idle" /\ ~stopped)
        => \E s \in Sources : deps[s].present /\ deps[s].track /\ ~deps[s].completed

\* C5: the asynchronous failure of the source of any entry is emitted at once
\* as the runner's failure, with the source's error value, and nothing runs
\* or is emitted after a failure.
C5_AsyncErrorFailsRunner ==
    [][/\ \A s \in Sources :
            IsError(s) => (Emits("error") /\ lastOut' = ErrorOf(s) /\ stopped' /\ pc' = "idle")
       /\ (out # <<>> /\ Last(out) = "error")
            => (out' = out /\ pc' = pc /\ passes' = passes)]_vars

\* an entry that the latest pass did not read and that is not tracked failed
C5_Witness ==
    /\ ev.type = "error"
    /\ out # <<>> /\ Last(out) = "error" /\ lastOut = ErrorOf(ev.src)
    /\ deps[ev.src].present /\ ~deps[ev.src].track /\ ~deps[ev.src].used

\* C6: when the source fails while tracker() subscribes it, the pass fails:
\* the source's error is emitted as the failure, and neither a result nor a
\* completion is.
C6_SyncErrorFailsPass ==
    [][\A s \in Sources :
          (IsAccess(s) /\ ev'.val = ErrorOf(s))
             => /\ Emits("error") /\ lastOut' = ErrorOf(s)
                /\ stopped' /\ pc' = "idle" /\ lastPass' = "failed"]_vars

\* the initial pass read a source that had a value, then one that failed
C6_Witness ==
    /\ pc = "idle" /\ lastPass = "failed" /\ ev.type = "access"
    /\ out = <<"error">> /\ lastOut = ErrorOf(ev.src)
    /\ \E s \in (readT \cup readU) \ {ev.src} : deps[s].hasValue

\* C7: a value thrown by the expression is emitted as the failure, without a
\* result; after a failure nothing is emitted and no pass starts; an aborted
\* pass emits neither a failure nor a result.
C7_ExpressionErrorFailsRunner ==
    [][/\ ev'.type = "throw"
            => (Emits("error") /\ lastOut' = UserError /\ stopped' /\ pc' = "idle"
                /\ lastPass' = "failed")
       /\ (out # <<>> /\ Last(out) = "error" /\ lastOut = UserError)
            => (out' = out /\ passes' = passes)
       /\ (pc = "fn" /\ pc' = "idle" /\ lastPass' = "aborted")
            => (out' = out \/ Emits("complete"))]_vars

\* a pass after a first result failed with the error of the expression
C7_Witness ==
    /\ ev.type = "throw" /\ pc = "idle"
    /\ Len(out) >= 2 /\ Last(out) = "error" /\ lastOut = UserError
    /\ readT # {}

ReadsNoValue(s) ==
    IsAccess(s) /\ ev'.val = NoValue /\ deps'[s].present /\ ~deps'[s].hasValue

\* C9: a pass that reads a source without a value is aborted, emitting neither
\* a result nor a failure; the pass started by the value of that source begins
\* the expression from the start; after a read through $ that value does
\* start a pass.
C9_MissingValueAbortsAndRestarts ==
    [][/\ \A s \in Sources :
            ReadsNoValue(s)
               => /\ pc' = "idle" /\ lastPass' = "aborted" /\ haltOn' = s
                  /\ (out' = out \/ Emits("complete"))
       /\ \A s \in Sources :
            (IsNext(s) /\ lastPass = "aborted" /\ haltOn = s)
               => /\ pc' = "fn" => (nreads' = 0 /\ acc' = 0 /\ passes' = passes + 1)
                  /\ s \in readT => pc' = "fn"]_vars

\* the value of the awaited source has started the next pass
C9_Witness ==
    /\ pc = "fn" /\ nreads = 0 /\ passes >= 2
    /\ lastPass = "aborted" /\ ev.type = "next" /\ ev.src = haltOn

\* C10: the first value of the source whose missing value aborted the latest
\* pass, read through _, starts a pass.
C10_FirstUntrackedValueRuns ==
    [][\A s \in Sources :
          (IsNext(s) /\ lastPass = "aborted" /\ haltOn = s /\ s \in readU \ readT
             /\ ~deps[s].hasValue)
             => (pc' = "fn" /\ passes' = passes + 1)]_vars

\* the latest pass was aborted on a read of s through _ only, and s has since
\* neither emitted nor completed
WaitsUntracked(s) ==
    /\ pc = "idle" /\ ~stopped /\ lastPass = "aborted" /\ haltOn = s
    /\ s \in readU \ readT
    /\ deps[s].present /\ ~deps[s].hasValue /\ ~deps[s].completed

\* C11: an entry read only through _ that has no value yet has track = TRUE
\* after every aborted pass that waits for it, and while the runner waits for
\* it no completion is emitted other than for a source completing without a
\* value.
C11_WaitingUntrackedStaysTracked ==
    [][\A s \in Sources :
          /\ WaitsUntracked(s)' => deps'[s].track
          /\ (WaitsUntracked(s) /\ Emits("complete")) => ValuelessCompletion]_vars

\* C12 (expressions that read through _ only): the step that ends a pass
\* successfully emits the first result and then completion; that pass is the
\* initial one, or the one started by the first value of the source the
\* previous pass waited for.
C12_UntrackedOnlyCompletesAfterFirstResult ==
    [][(pc = "fn" /\ pc' = "idle" /\ lastPass' = "succeeded")
          => /\ out = <<>> /\ out' = <<"next", "complete">> /\ stopped'
             /\ passes = 1 => cont = NoSource
             /\ passes > 1 => (cont \in Sources /\ cont = haltOn /\ lastPass = "aborted")]_vars

\* two passes waited for a first value, the third emitted the result and completed
C12_Witness ==
    /\ pc = "idle" /\ lastPass = "succeeded" /\ passes = 3
    /\ out = <<"next", "complete">> /\ readU = Sources /\ readT = {}
    /\ \A s \in Sources : deps[s].present /\ ~deps[s].completed

\* the step is an accessor call that subscribes s, and s completes during the
\* subscription without having delivered a value
SyncValuelessCompletion(s) ==
    /\ IsAccess(s) /\ ~deps[s].present
    /\ deps'[s].present /\ deps'[s].completed /\ ~deps'[s].hasValue

C14_UntrackedValuelessCompletionSilent ==
    [][\A s \in Sources :
          (/\ IsComplete(s) /\ ~deps[s].hasValue /\ s \in readU \ readT
           /\ \E t \in readT \ {s} :
                 deps[t].present /\ deps[t].track /\ deps[t].hasValue /\ ~deps[t].completed)
             => out' = out]_vars

\* the step ends the running pass with the given outcome
EndsPass(outcome) == pc = "fn" /\ pc' = "idle" /\ lastPass' = outcome

\* C15: the step that ends a pass successfully removes every entry the pass
\* did not read unless it is Strong, and the result goes out in that step; an
\* accessor call for a source without an entry opens a connection, and the
\* value that connection delivers is the one the call returns.
C15_SuccessReleasesUnread ==
    [][/\ EndsPass("succeeded")
            => /\ \A s \in Sources :
                     (deps[s].present /\ ~deps[s].used /\ deps[s].strength # Strong)
                        => (deps'[s] = NoEntry /\ s \in released')
               /\ Emits("next") \/ out' = Append(Append(out, "next"), "complete")
       /\ \A s \in Sources :
            (IsAccess(s) /\ ~deps[s].present /\ ev'.val \in Values)
               => /\ deps'[s].present /\ deps'[s].subscription = "open"
                  /\ deps'[s].value = ev'.val
                  /\ pc' = "fn" /\ acc' = acc + ev'.val]_vars

\* a successful pass has released a source, and its result was emitted
C15_Witness ==
    /\ pc = "idle" /\ lastPass = "succeeded" /\ passes >= 2
    /\ released # {} /\ \A s \in released : ~deps[s].present
    /\ Last(out) = "next" /\ ~stopped

\* the running pass has not read s, and the step is not a read of s
Unread(s) == ~deps[s].used /\ ~IsAccess(s)

\* C16: the step that aborts a pass keeps every entry that was Normal (lowered
\* by this pass) or Strong when the pass started, with its connection open
\* unless the runner terminates in that step; an unread entry that was Normal
\* is Normal again; afterwards a value of such an unread entry is stored
\* without starting a pass or emitting.
C16_AbortKeepsNormalAndStrong ==
    [][/\ EndsPass("aborted")
            => \A s \in Sources :
                  /\ (deps[s].present /\ (s \in loweredStrengthDeps \/ deps[s].strength = Strong))
                        => /\ deps'[s].present /\ s \notin released'
                           /\ ~stopped' => deps'[s].subscription = "open"
                  /\ (s \in loweredStrengthDeps /\ Unread(s))
                        => deps'[s].strength = Normal
       /\ \A s \in Sources :
            (IsNext(s) /\ lastPass = "aborted" /\ s \notin readT \cup readU)
               => /\ deps'[s].hasValue /\ deps'[s].value = ev'.val
                  /\ pc' = "idle" /\ out' = out /\ passes' = passes]_vars

\* after an aborted pass that did not read it, a Normal entry received a value
C16_Witness ==
    /\ pc = "idle" /\ lastPass = "aborted" /\ ~stopped
    /\ ev.type = "next" /\ ev.src \notin readT \cup readU
    /\ deps[ev.src].present /\ deps[ev.src].strength = Normal
    /\ deps[ev.src].subscription = "open" /\ deps[ev.src].value = ev.val
    /\ ~deps[ev.src].track

\* C17: the step that aborts a pass removes every entry that was Weak when
\* the pass started and that the pass did not read; an entry comes into being
\* only by an accessor call for its source.
C17_AbortReleasesUnreadWeak ==
    [][/\ EndsPass("aborted")
            => \A s \in Sources :
                  (/\ deps[s].present /\ deps[s].strength = Weak
                   /\ s \notin loweredStrengthDeps /\ Unread(s))
                     => (deps'[s] = NoEntry /\ s \in released')
       /\ \A s \in Sources :
            (~deps[s].present /\ deps'[s].present) => IsAccess(s)]_vars

\* an aborted pass has released an entry, and waits for another source
C17_Witness ==
    /\ pc = "idle" /\ lastPass = "aborted" /\ ~stopped
    /\ released # {} /\ \A s \in released : ~deps[s].present
    /\ haltOn \in Sources \ released /\ ~deps[haltOn].hasValue

\* C18: the entry of a source that has been read through a strong accessor
\* is not removed, and its connection stays open, as long as the runner has
\* not terminated.
C18_StrongReadKeptForLife ==
    [][\A s \in strongRead :
          (deps[s].present /\ ~stopped')
             => (deps'[s].present /\ deps'[s].subscription = "open")]_vars

\* C19: at the end of a pass, successful or aborted, every entry the pass
\* read is at least as strong as the strongest strength the pass asked for.
C19_StrengthAtLeastRequested ==
    [][(EndsPass("succeeded") \/ EndsPass("aborted"))
          => \A s \in Sources :
                (requested'[s] # NoStrength /\ deps'[s].present)
                   => deps'[s].strength >= requested'[s]]_vars

\* C20: an entry that was Normal and that a successful pass reads through
\* weak accessors only is Weak at the end of that pass; the aborted pass that
\* follows a successful one removes the Weak entries it did not read; an
\* aborted pass leaves an entry that was Normal and that it did not read Normal.
C20_WeakReadLowersForNextAbort ==
    [][/\ EndsPass("succeeded")
            => \A s \in loweredStrengthDeps :
                  requested'[s] = Weak => (deps'[s].present /\ deps'[s].strength = Weak)
       /\ (EndsPass("aborted") /\ lastPass = "succeeded")
            => \A s \in Sources :
                  (deps[s].present /\ deps[s].strength = Weak /\ Unread(s)
                     /\ s \notin loweredStrengthDeps)
                     => (~deps'[s].present /\ s \in released')
       /\ EndsPass("aborted")
            => \A s \in loweredStrengthDeps :
                  Unread(s) => (deps'[s].present /\ deps'[s].strength = Normal)]_vars

\* a successful pass has read an entry that was Normal through weak accessors
\* only, and the entry is Weak
C20_Witness ==
    /\ pc = "idle" /\ lastPass = "succeeded" /\ ~stopped
    /\ \E s \in loweredStrengthDeps :
          requested[s] = Weak /\ deps[s].present /\ deps[s].strength = Weak

\* C21 (as claimed): a source read through _ only that a pass does not read
\* is still connected after that pass.
C21_PeekedStaysConnected ==
    [][\A s \in Peeked :
          ((EndsPass("succeeded") \/ EndsPass("aborted"))
             /\ deps[s].present /\ Unread(s) /\ ~stopped')
            => (deps'[s].present /\ deps'[s].subscription = "open")]_vars

\* the running pass has read s, or the step is a read of s
ReadNow(s) == deps[s].used \/ IsAccess(s)

\* C21 (amended): a source read through _ only is still connected after a
\* pass that reads it and after an aborted pass that does not; a successful
\* pass that does not read it releases it.
C21_PeekedConnectedWhileRead ==
    [][\A s \in Peeked :
          /\ ((EndsPass("succeeded") \/ EndsPass("aborted")) /\ ReadNow(s) /\ ~stopped')
                => (deps'[s].present /\ deps'[s].subscription = "open")
          /\ (EndsPass("aborted") /\ deps[s].present /\ Unread(s) /\ ~stopped')
                => (deps'[s].present /\ deps'[s].subscription = "open")
          /\ (EndsPass("succeeded") /\ deps[s].present /\ Unread(s))
                => (~deps'[s].present /\ s \in released')]_vars

\* after a successful pass that read it through _, the source is connected
\* and not tracked, and the runner goes on
C21_Witness ==
    /\ pc = "idle" /\ lastPass = "succeeded" /\ ~stopped /\ passes >= 2
    /\ \E s \in Peeked :
          s \in readU /\ deps[s].present /\ deps[s].subscription = "open" /\ ~deps[s].track

\* C22 (as claimed): after an aborted pass the entries that existed when the
\* pass started are all there, with the strength and the track flag they had.
C22_AbortLeavesRegistryAsBefore ==
    [][EndsPass("aborted")
          => \A s \in Sources :
                before.deps[s].present
                   => /\ deps'[s].present
                      /\ deps'[s].strength = before.deps[s].strength
                      /\ deps'[s].track = before.deps[s].track]_vars

\* C22 (amended): after an aborted pass an entry that existed when the pass
\* started has the value it had; it is there with the same strength if it was Normal or Strong; if it was Weak it is there
\* iff the pass read it; and it is untracked unless the pass read it through $.
C22_AbortKeepsValuesNotFlags ==
    [][EndsPass("aborted")
          => \A s \in Sources :
                before.deps[s].present
                   => /\ before.deps[s].strength # Weak
                            => (deps'[s].present
                                  /\ deps'[s].strength = before.deps[s].strength)
                      /\ before.deps[s].strength = Weak
                            => (deps'[s].present <=> requested'[s] # NoStrength)
                      /\ deps'[s].present
                            => /\ deps'[s].hasValue = before.deps[s].hasValue
                               /\ deps'[s].value = before.deps[s].value
                               /\ s \notin readT' => ~deps'[s].track]_vars

\* an entry that was tracked when the aborted pass started is still there,
\* untracked
C22_Witness ==
    /\ pc = "idle" /\ lastPass = "aborted" /\ ~stopped /\ before.on
    /\ \E s \in Sources :
          /\ before.deps[s].present /\ before.deps[s].track
          /\ deps[s].present /\ ~deps[s].track /\ s \notin readT

\* the step is the asynchronous delivery, by source s, of the value it
\* delivered immediately before
RepeatsValue(s) ==
    /\ pc = "idle" /\ IsNext(s)
    /\ deps[s].present /\ deps[s].hasValue /\ deps[s].value = ev'.val

\* C23 (as claimed): whatever the runner, a source that emits the value it
\* delivered immediately before starts no pass.
C23_RepeatedValueStartsNoPass ==
    [][\A s \in Sources : RepeatsValue(s) => (passes' = passes /\ pc' = "idle")]_vars

\* C23 (amended): in a computed() runner a source that emits the value it
\* delivered immediately before starts no pass and changes nothing; in a
\* combined() runner it starts a pass if the source is tracked, as any other
\* value would.
C23_RepeatedValueByInputType ==
    [][\A s \in Sources :
          RepeatsValue(s)
             => /\ inputType = Distinct
                      => (passes' = passes /\ pc' = "idle" /\ deps' = deps /\ out' = out)
                /\ (inputType = Raw /\ deps[s].track)
                      => (passes' = passes + 1 /\ pc' = "fn")]_vars

\* a computed() runner has just dropped the repeated value of a tracked source
C23_Witness ==
    /\ pc = "idle" /\ ~stopped /\ inputType = Distinct
    /\ ev.type = "next"
    /\ deps[ev.src].present /\ deps[ev.src].track
    /\ deps[ev.src].hasValue /\ deps[ev.src].value = ev.val

\* no two consecutive elements of seq are equal
NoRepeat(seq) ==
    \A i \in 1..(Len(seq) - 1) : seq[i] # seq[i + 1]

\* the results the runner itself has emitted so far
Nexts == Len(SelectSeq(out, LAMBDA x : x = "next"))

\* C24: computed(fn) never delivers the same result twice in a row, however
\* many successful passes compute it; combined(fn) delivers the result of
\* every successful pass.
C24_DistinctOrEveryResult ==
    [][/\ inputType = Distinct => NoRepeat(delivered'.seq)
       /\ (inputType = Raw /\ EndsPass("succeeded"))
             => delivered'.seq = Append(delivered.seq, acc)]_vars

\* computed(fn) has dropped the result of its latest successful pass, which
\* equals the one before
C24_Witness ==
    /\ inputType = Distinct /\ pc = "idle" /\ lastPass = "succeeded" /\ ~stopped
    /\ Nexts >= 2 /\ Len(delivered.seq) < Nexts
    /\ delivered.seq[Len(delivered.seq)] = lastOut

\* every form of $ and _ throws TrackerError when called now
OutsideOfRun ==
    \A tracker \in TrackerNames, form \in FormNames :
       ForwardTracker(context, tracker, form).throws

\* C25: while no pass is executing every form of $ and _ fails with the
\* outside-of-run error; a pass saves the installed context when it starts and
\* its end, whatever its outcome, installs the saved one again.
C25_ContextRestored ==
    /\ [](pc # "fn" => OutsideOfRun)
    /\ [][/\ (pc # "fn" /\ pc' = "fn") => (prevCtxt' = context /\ ~OutsideOfRun')
          /\ (pc = "fn" /\ pc' = "fn") => UNCHANGED <<context, prevCtxt>>
          /\ \A outcome \in {"succeeded", "aborted", "failed"} :
                EndsPass(outcome) => context' = prevCtxt]_vars

\* a pass started by a value has failed and the accessors fail again
C25_Witness ==
    /\ pc = "idle" /\ lastPass = "failed" /\ passes >= 2
    /\ prevCtxt = "errorTracker" /\ OutsideOfRun

\* C26: an accessor call made by the expression of a runner is registered in
\* the deps of that runner, and the deps of the other runner are left as they
\* were, however the runFn calls of the two runners nest.
C26_RegistersWithExecutingRunner ==
    [][nest'.call # NoCall
          => LET X == nest'.call.by
             IN /\ nest'.call.into = X
                /\ nest'.call.src \in nest'.reg[X]
                /\ \A Y \in NestedRunners \ {X} : nest'.reg[Y] = nest.reg[Y]]_vars

\* the outer expression, run from inside the result delivery of the inner
\* runner, has made an accessor call, and the inner runner has an entry of its own
C26_Witness ==
    /\ Len(nest.stack) = 2
    /\ nest.stack[1].runner = "inner" /\ nest.stack[1].pc = "next"
    /\ nest.stack[2].runner = "outer"
    /\ nest.call.by = "outer" /\ nest.call.into = "outer" /\ nest.call.src = "p"
    /\ nest.reg["inner"] = {"o"} /\ "o" \notin nest.reg["outer"]

\* the entries, the open upstream connections and the results of connection d
ConnView(C, d) ==
    [entries |-> C.map[DepsOf(d)],
     open    |-> {s \in Sources : <<d, s>> \in C.open},
     results |-> C.results[d]]

\* C27: a step of one connection (its subscription, a value, completion or
\* failure of one of its upstream connections, its teardown) leaves the
\* entries, the upstream connections and the results of the other connection
\* as they were; and a connected runner has an entry and an upstream
\* connection of its own (open until the source completes) for every source
\* its latest pass read.
C27_IndependentConnections ==
    [][/\ \A d \in Conns :
             d # conns'.by => ConnView(conns', d) = ConnView(conns, d)
       /\ \A c \in Conns :
             conns'.alive[c] = "open"
                => \A s \in conns'.read[c] :
                      /\ conns'.map[DepsOf(c)][s].present
                      /\ conns'.map[DepsOf(c)][s].sub = c
                      /\ <<c, s>> \in conns'.open \/ conns'.map[DepsOf(c)][s].completed]_vars

\* both connections hold an entry and an upstream connection for the same
\* source, with different values, and a value has just come through one of them
C27_Witness ==
    \E s \in Sources :
       /\ <<1, s>> \in conns.open /\ <<2, s>> \in conns.open
       /\ conns.map[DepsOf(1)][s].hasValue /\ conns.map[DepsOf(2)][s].hasValue
       /\ conns.map[DepsOf(1)][s].value # conns.map[DepsOf(2)][s].value
       /\ conns.results[1].count >= 2 /\ conns.results[2].count = 1
       /\ conns.by = 1

\* C28: once the connection of the runner has ended (teardown, completion or
\* failure, in the initial pass or later) and its handler has returned, no
\* entry has an open connection; a connection that was released is not opened
\* or released again; and no step runs a pass or emits anything.
C28_NothingAfterTermination ==
    /\ []((stopped /\ pc = "idle")
             => \A s \in Sources : ~(deps[s].present /\ deps[s].subscription = "open"))
    /\ [][/\ (stopped /\ pc = "idle")
                => (passes' = passes /\ out' = out /\ pc' = "idle")
          /\ \A s \in Sources :
                (deps[s].present /\ deps[s].subscription = "closed" /\ deps'[s].present)
                   => deps'[s].subscription = "closed"]_vars

\* the runner ended during its initial pass, with an entry whose connection
\* had been opened
C28_Witness ==
    /\ stopped /\ pc = "idle" /\ passes = 1 /\ torn
    /\ \E s \in Sources : deps[s].present /\ deps[s].subscription = "closed"

\* C29: subscribing runs one pass, and no other pass starts before it is
\* over; when the expression of that pass returns (each source it read gave
\* the accessor a value at once), the result is emitted in that step, followed
\* in the same step by the completion iff every source read through $ has
\* completed.
C29_InitialPass ==
    [][/\ (pc = "start" /\ pc' # "start") => (pc' = "fn" /\ passes' = 1)
       /\ (pc = "fn" /\ initial) => (passes = 1 /\ passes' = 1)
       /\ (pc = "fn" /\ initial /\ ev'.type = "return")
             => /\ pc' = "idle" /\ lastPass' = "succeeded"
                /\ IF \A s \in readT : deps[s].completed
                   THEN out' = <<"next", "complete">> /\ stopped'
                   ELSE out' = <<"next">> /\ lastOut' = acc /\ ~stopped']_vars

\* the initial pass read a source through $ that delivered a value and
\* completed at once: result and completion were emitted on subscription
C29_Witness ==
    /\ passes = 1 /\ pc = "idle" /\ lastPass = "succeeded"
    /\ out = <<"next", "complete">>
    /\ \E s \in Sources : s \in readT /\ deps[s].present /\ deps[s].completed

\* C30: the accessor call that subscribes a source which emits two values
\* at once starts no pass and emits nothing; the entry stores the second
\* value, the call returns it to the pass in progress, which goes on; and a
\* pass that succeeds emits one result.
C30_SyncBurstKeepsLast ==
    [][/\ \A s \in Sources, evs \in SyncBursts :
             (Len(NextsOf(evs)) = 2 /\ ~deps[s].present /\ Access(s, TRUE, Normal, evs))
                => /\ passes' = passes /\ pc' = "fn" /\ out' = out
                   /\ deps'[s].hasValue /\ deps'[s].value = evs[2].val
                   /\ acc' = acc + evs[2].val
       /\ EndsPass("succeeded") => (Nexts' = Nexts + 1 /\ (~stopped' => lastOut' = acc))]_vars

\* a source has just emitted two values while the initial pass
\* subscribed it: the entry holds the second, which the call returned
C30_Witness ==
    /\ pc = "fn" /\ passes = 1 /\ out = <<>>
    /\ ev.type = "access" /\ ev.count = 2
    /\ deps[ev.src].hasValue /\ deps[ev.src].value = 2 /\ ev.val = 2 /\ acc = 2

\* the step, a completion of source s, touches no entry beyond the completed
\* flag of s and the connections that a termination closes
MarksCompletedOnly(s) ==
    /\ deps'[s].completed
    /\ \A t \in Sources :
          [deps'[t] EXCEPT !.subscription = deps[t].subscription,
                           !.completed = deps[t].completed] = deps[t]
    /\ \A t \in Sources \ {s} : deps'[t].completed = deps[t].completed

\* every tracked entry has completed
TrackedCompleted(d) ==
    \A t \in Sources : (d[t].present /\ d[t].track) => d[t].completed

Holds(s) == subscriptions.n[s] > 0

\* C32 (as claimed): in every reachable state an entry exists for a source
\* iff the runner holds a connection to it.
C32_EntryIffConnection ==
    \A s \in Sources : deps[s].present <=> Holds(s)

\* C32 (amended): the runner never holds a connection to a source without an
\* entry for it; until the teardown has run, every entry has its connection,
\* not unsubscribed; an entry is created only by an accessor call, which opens
\* its connection in the same step, and no connection is opened otherwise; an
\* entry is removed only together with the release of its connection, and a
\* connection is released otherwise only by the teardown, which leaves the
\* entries in the map.
C32_EntryIffConnectionUntilTeardown ==
    /\ [](\A s \in Sources :
             /\ Holds(s) => deps[s].present
             /\ (deps[s].present /\ ~torn)
                   => (Holds(s) /\ deps[s].subscription = "open"))
    /\ [][\A s \in Sources :
             LET n == subscriptions.n[s]
                 m == subscriptions'.n[s]
             IN /\ (~deps[s].present /\ deps'[s].present)
                      => (IsAccess(s) /\ (m = n + 1 \/ torn'))
                /\ m > n => (~deps[s].present /\ deps'[s].present)
                /\ (deps[s].present /\ ~deps'[s].present)
                      => (m = n - 1 /\ s \in released')
                /\ m < n => (~deps'[s].present \/ (torn' /\ ~torn))]_vars

\* an aborted pass has removed the Weak entry it did not read and released
\* its connection; the entry it waits for has its connection
C32_Witness ==
    /\ pc = "idle" /\ lastPass = "aborted" /\ ~stopped
    /\ released # {} /\ \A s \in released : ~deps[s].present /\ ~Holds(s)
    /\ haltOn \in Sources /\ deps[haltOn].present /\ Holds(haltOn)

\* C33: the runner holds at most one connection per source; an accessor call
\* for a source that has an entry, in whatever form and in whatever pass,
\* opens no connection and finds that entry: the one created with the same
\* accessor kind, with the value it held, which the call returns.
C33_OneEntryOneConnection ==
    /\ [](\A s \in Sources : subscriptions.n[s] <= 1)
    /\ [][\A s \in Sources :
             (IsAccess(s) /\ deps[s].present)
                => /\ subscriptions'.n[s] = subscriptions.n[s] \/ torn'
                   /\ deps'[s].present
                   /\ deps'[s].trackArg = deps[s].trackArg
                   /\ deps'[s].hasValue = deps[s].hasValue
                   /\ deps'[s].value = deps[s].value
                   /\ pc' = "fn" => acc' = acc + deps[s].value]_vars

\* a pass started by a value of the only source that has an entry has read
\* that source through $ and through _: one connection is held
C33_Witness ==
    /\ pc = "fn" /\ passes >= 2 /\ nreads = 2
    /\ ev.type = "access"
    /\ ev.src \in readT \cap readU
    /\ deps[ev.src].present /\ subscriptions.n[ev.src] = 1
    /\ \A t \in Sources \ {ev.src} : ~deps[t].present

\* the step ends a pass with a result during whose delivery downstream unsubscribes
UnsubscribesInResult == pc = "fn" /\ ev'.type = "returnUnsubscribed"

\* C34: when downstream unsubscribes while the result of a pass is delivered
\* to it, that pass emits the result and nothing else (no second result, no
\* completion, no failure); when its handler has returned every entry
\* connection is released and none was opened; and nothing runs or is
\* emitted afterwards.
C34_TeardownInsideDelivery ==
    [][/\ UnsubscribesInResult
             => /\ out' = Append(out, "next") /\ lastOut' = acc
                /\ stopped' /\ torn' /\ pc' = "idle"
                /\ \A s \in Sources :
                      /\ subscriptions'.n[s] = 0
                      /\ deps'[s].present => deps'[s].subscription = "closed"
       /\ (ev.type = "returnUnsubscribed" /\ pc = "idle")
             => (out' = out /\ passes' = passes /\ pc' = "idle" /\ deps' = deps
                 /\ subscriptions' = subscriptions)]_vars

\* downstream unsubscribed inside the result of a pass started by a value
\* whose tracked sources had all completed: no completion was emitted, and
\* the connections are released
C34_Witness ==
    /\ ev.type = "returnUnsubscribed" /\ pc = "idle" /\ passes >= 2
    /\ stopped /\ torn /\ Last(out) = "next"
    /\ readT # {} /\ \A s \in readT : deps[s].present /\ deps[s].completed
    /\ \E s \in Sources :
          deps[s].present /\ ~deps[s].completed /\ deps[s].subscription = "closed"

\* C35: the step that ends a pass successfully emits the result of the pass
\* first; if the runner completes in that step, the completion comes right
\* after that result, and a completion is never emitted by such a step without
\* the result before it.
C35_ResultBeforeCompletion ==
    [][EndsPass("succeeded")
          => /\ Len(out') > Len(out)
             /\ out'[Len(out) + 1] = "next"
             /\ SubSeq(out', 1, Len(out)) = out
             /\ stopped' => out' = Append(Append(out, "next"), "complete")
             /\ ~stopped' => (out' = Append(out, "next") /\ lastOut' = acc)]_vars

\* a pass started by a value read an untracked source and a tracked source
\* that has completed: its result went out, then the completion
C35_Witness ==
    /\ pc = "idle" /\ lastPass = "succeeded" /\ passes >= 2 /\ ev.type = "return"
    /\ Len(out) >= 2 /\ out[Len(out) - 1] = "next" /\ Last(out) = "complete"
    /\ readT # {} /\ readU # {}
    /\ \A s \in readT : deps[s].present /\ deps[s].completed

\* C36: the entry of a source holds the value the source delivered last on
\* its connection: a value delivered later is stored, tracked or not, read in
\* the latest pass or not; the values delivered while the source is
\* subscribed leave the last of them; no other step changes the value of an
\* entry that stays; and an accessor call for an entry that holds a value
\* gives that value to the pass.
C36_StoredValueIsLatest ==
    [][\A s \in Sources :
          /\ IsNext(s) => (deps'[s].hasValue /\ deps'[s].value = ev'.val)
          /\ (IsAccess(s) /\ ~deps[s].present /\ ev'.val \in Values)
                => (deps'[s].present /\ deps'[s].hasValue /\ deps'[s].value = ev'.val
                    /\ pc' = "fn" /\ acc' = acc + ev'.val)
          /\ (deps[s].present /\ deps'[s].present /\ ~IsNext(s))
                => (deps'[s].hasValue = deps[s].hasValue /\ deps'[s].value = deps[s].value)
          /\ (IsAccess(s) /\ deps[s].present /\ deps[s].hasValue)
                => (pc' = "fn" /\ acc' = acc + deps[s].value)]_vars

\* a source read through _ in the latest successful pass has since delivered
\* a value other than the one that pass used: the entry, untracked, holds it
C36_Witness ==
    /\ pc = "idle" /\ lastPass = "succeeded" /\ ~stopped /\ ev.type = "next"
    /\ ev.src \in readU \ readT
    /\ deps[ev.src].present /\ ~deps[ev.src].track /\ deps[ev.src].value = ev.val
    /\ \E t \in Sources \ {ev.src} :
          readT = {t} /\ deps[t].present /\ lastOut # deps[t].value + ev.val

\* the step is a value, the completion or the failure of source s
IsSourceEvent(s) == IsNext(s) \/ IsComplete(s) \/ IsError(s)

\* C37: a source whose entry was pruned has no entry and no open connection;
\* while it has no entry, its values, its completion and its failure leave
\* the registry, the output, the passes and the state of the runner as they
\* were; and an entry for it comes back only by an accessor call of a pass.
C37_PrunedSourceIsUnheard ==
    [][\A s \in Sources :
          /\ s \in released'
                => (~deps'[s].present /\ deps'[s].subscription = "closed")
          /\ (~deps[s].present /\ IsSourceEvent(s))
                => UNCHANGED <<deps, out, lastOut, passes, pc, stopped, torn,
                               shouldCheckCompletion, lastPass>>
          /\ (~deps[s].present /\ deps'[s].present) => IsAccess(s)]_vars

\* the source whose entry the latest pass pruned has failed since, and the
\* runner goes on
C37_Witness ==
    /\ pc = "idle" /\ ~stopped /\ lastPass = "succeeded"
    /\ ev.type = "error" /\ ev.src \in released
    /\ ~deps[ev.src].present
    /\ out # <<>> /\ Last(out) = "next"

\* C38: the step that aborts a pass on the missing value of source s keeps
\* the entry of s, Weak or not, new or not; unless the runner ends in that
\* step (s completed without a value) the entry is connected and waits; and
\* the first value s delivers afterwards is stored in it.
C38_AwaitedEntryKept ==
    [][\A s \in Sources :
          /\ (EndsPass("aborted") /\ haltOn' = s)
                => /\ deps'[s].present /\ s \notin released'
                   /\ ~deps'[s].hasValue
                   /\ ~stopped' => (Live(deps'[s]) /\ Holds(s)')
          /\ (IsNext(s) /\ lastPass = "aborted" /\ haltOn = s /\ ~deps[s].hasValue)
                => (deps'[s].present /\ deps'[s].hasValue /\ deps'[s].value = ev'.val)]_vars

\* a pass has aborted on a Weak entry and pruned the Weak entry it did not
\* read; the awaited one is connected
C38_Witness ==
    /\ pc = "idle" /\ lastPass = "aborted" /\ ~stopped /\ passes >= 2
    /\ haltOn \in Sources /\ deps[haltOn].present /\ deps[haltOn].strength = Weak
    /\ deps[haltOn].subscription = "open" /\ ~deps[haltOn].hasValue
    /\ released # {} /\ haltOn \notin released

====
